---- MODULE Spec2Model ----
(***************************************************************************)
(* Storm lifecycle, ingest and forecast pipeline of tctfs.                 *)
(*                                                                         *)
(* The committed database is the variables status, advisories, last_seen   *)
(* and last_status_change_at (the storms table and its advisories) and     *)
(* fpoints / zones (forecast_points and zones rows).  Every celery task is *)
(* one action; a task that loops over storms carries its SQLAlchemy        *)
(* session (working copy S, committed copy C) through the loop, so that a  *)
(* commit made for one storm also commits whatever an earlier iteration    *)
(* left dirty in the session.  Time is in hours.                           *)
(***************************************************************************)
EXTENDS Integers, Sequences, FiniteSets, TLC

VARIABLES now, tickIdx, status, advisories, last_seen,
          last_status_change_at, ev, fpoints, zones, tx, given, made, cache,
          queue, storm_rows

lifeVars == <<now, tickIdx, status, advisories, last_seen,
              last_status_change_at, ev>>
stormVars == <<now, tickIdx, status, advisories, last_seen,
               last_status_change_at>>
fcVars == <<fpoints, zones, tx>>
dataVars == <<given, made>>
vars == <<now, tickIdx, status, advisories, last_seen,
          last_status_change_at, ev, fpoints, zones, tx, given, made, cache,
          queue, storm_rows>>

(* ---------------------------------------------------------------------- *)
(* Program constants                                                      *)
(* ---------------------------------------------------------------------- *)
DORMANT_THRESHOLD == 24
ARCHIVE_THRESHOLD == 168

(* ---------------------------------------------------------------------- *)
(* Bounds of the model                                                    *)
(* ---------------------------------------------------------------------- *)
\* storm codes that the upstream index page can list
Storms == {"28W", "03S"}
\* the instants (hours) at which the clock stands: an advisory issued at 0 is
\* exactly 24 h old, then 25 h old, then 169 h old
Instants == <<0, 24, 25, 169>>
\* how many of the instants the clock visits
MaxTicks == 4
\* most lines a history file holds
MaxAdv == 2

\* worker processes that can run a per-storm task at the same time
Workers == {"w1", "w2"}
\* issuance times (as cycle numbers) an A-Deck file can hold
MaxIssuance == 2
\* forecast hours of the lead-time grid that an A-Deck file can hold
LeadHours == {0, 24}
\* the forecast hours the latest issuance of a file covers: the grid up to
\* some hour
HourSets == {{h \in LeadHours : h <= m} : m \in LeadHours}

\* most lines a history file holds when its lines are told apart by content
MaxLines == 3

NULL == -1

\* given is the input a data-processing step works on (the body of a fetched
\* history, A-Deck or 2dwind file as its lines, or the forecast a zone
\* generation starts from) and made is what the step made of it: the records
\* parsed, the parse errors reported and the rows inserted.  The lifecycle and
\* scheduling specifications leave both empty.
\* cache is what the fetch services remember of their conditional requests:
\* per URL (the index page, the history file and the A-Deck file of a storm)
\* the validator (ETag / Last-Modified) of the last 200 response, as the
\* version of the upstream document it came with; 0 for none.  The upstream
\* documents change with the clock: their version is tickIdx.
NoValidators ==
  [index |-> 0, history |-> [s \in Storms |-> 0], adeck |-> [s \in Storms |-> 0]]

\* queue is the celery queue and the WebSocket channel as far as forecast
\* updates use them: pending holds the regenerate_storm_zones_task messages
\* that update_storm_forecast_task has sent with .delay() and no worker has
\* taken yet, emitted counts the forecast_updated events sent.  commits
\* numbers the committed forecast transactions of a storm and own is the
\* number of the last one each worker committed; a message carries the
\* number (after) and the rows (points) of the commit of the run that sent it.
NoQueue ==
  [pending |-> {}, emitted |-> 0, commits |-> [s \in Storms |-> 0],
   own |-> [w \in Workers |-> 0]]

\* storm_rows is the storms table row by row, where the creation of storms
\* is followed: table holds the storm code of every committed row in the
\* order of insertion, and run is where the discovery run of each worker
\* stands: the storms it has still to go through (todo) and whether the one
\* at hand was found.  The other specifications keep the table as the
\* function status, one entry per code, and leave storm_rows empty.
IdleRun == [pc |-> "idle", todo |-> <<>>]
NoRows == [table |-> <<>>, run |-> [w \in Workers |-> IdleRun]]

NoInput == [kind |-> "none", lines |-> <<>>]
NotMade == [done |-> FALSE, records |-> <<>>, errors |-> 0, rows |-> <<>>]

Max(S) == CHOOSE x \in S : \A y \in S : y <= x

Perms(S) ==
  {q \in [1..Cardinality(S) -> S] : \A i, j \in 1..Cardinality(S) : i # j => q[i] # q[j]}

\* Storm.status; "absent" stands for a storm code with no row in storms
Statuses == {"absent", "active", "dormant", "archived"}

\* the committed rows of the storms and advisories tables, as one value
DB == [status |-> status, advisories |-> advisories, last_seen |-> last_seen,
       lsc |-> last_status_change_at]

\* ev is what the last task that wrote, sent or failed anything did besides
\* writing the rows above: the storms for which it committed an audit_logs
\* row, those for which it sent a status notification, those whose
\* archive_storm raised after the status assignment, and the storms that had a
\* pending or sending alert_events row when it ran.  A run that commits
\* nothing, sends nothing and fails nothing leaves no trace.
NoEvent ==
  [op |-> "none", audited |-> {}, notified |-> {}, raised |-> {}, pending |-> {},
   storm |-> "", result |-> ""]

Event(op, audited, notified, raised, pending) ==
  [op |-> op, audited |-> audited, notified |-> notified, raised |-> raised,
   pending |-> pending, storm |-> "", result |-> ""]

\* C: the committed rows the task leaves
Emit(e, C) ==
  ev' = IF C = DB /\ e.audited = {} /\ e.notified = {} /\ e.raised = {}
        THEN ev ELSE e

(* ---------------------------------------------------------------------- *)
(* Environment: the clock                                                 *)
(* ---------------------------------------------------------------------- *)
Tick ==
  /\ tickIdx < MaxTicks
  /\ tickIdx < Len(Instants)
  /\ tickIdx' = tickIdx + 1
  /\ now' = Instants[tickIdx + 1]
  /\ UNCHANGED <<status, advisories, last_seen, last_status_change_at, ev>>
  /\ UNCHANGED fcVars
  /\ UNCHANGED dataVars
  /\ UNCHANGED cache
  /\ UNCHANGED queue
  /\ UNCHANGED storm_rows

(* ---------------------------------------------------------------------- *)
(* tasks_ingest.discover_and_ingest_storms                                *)
(* ---------------------------------------------------------------------- *)
\* the issuance times of the lines a history file can hold when it is fetched:
\* the upstream only appends to a history file, so a fetched body holds the
\* lines stored from an earlier fetch; with newLines it may also hold one more
\* line, issued now
Bodies(s, newLines) ==
  {advisories[s]} \cup
  IF /\ newLines
     /\ Cardinality(advisories[s]) < MaxAdv
     /\ \A a \in advisories[s] : a < now
  THEN {advisories[s] \cup {now}}
  ELSE {}

\* what the history fetch and the parse of one storm's iteration come to:
\* "body" (with the issuance times of its lines) when a body was fetched and
\* parsed, "none" when fetch_history_file returned None (304, 404 or network
\* error), "raise" when an exception reached the except clause of the iteration
Fetched(s, newLines) ==
  {[kind |-> "none", lines |-> {}], [kind |-> "raise", lines |-> {}]}
  \cup {[kind |-> "body", lines |-> B] : B \in Bodies(s, newLines)}

\* what the loop body would do if it did not test the fetch result (line 66)
\* and parsed an absent body as an empty file
IngestCycle_untested(L, s, f) ==
  LET S1 == [L.S EXCEPT !.status[s] = "active", !.last_seen[s] = now,
                        !.advisories[s] = f.lines]
  IN  IF f.kind = "raise" THEN [L EXCEPT !.S = L.C]
      ELSE [L EXCEPT !.S = S1, !.C = S1]

\* the body of the for loop for one discovered storm s whose fetch and parse
\* came to f; L.S is the session's view of the rows, L.C the committed rows
IngestCycle(L, s, f) ==
  LET \* get or create the storm; a created storm is committed at once
      L1 == IF L.S.status[s] = "absent"
            THEN LET S1 == [L.S EXCEPT !.status[s] = "active", !.last_seen[s] = now]
                 IN  [L EXCEPT !.S = S1, !.C = S1]
            ELSE L
      \* storm.status = 'active'; storm.last_seen = now()
      S2 == [L1.S EXCEPT !.status[s] = "active", !.last_seen[s] = now]
  IN  CASE f.kind = "none" ->
             \* no commit: the assignments stay pending in the session
             [L1 EXCEPT !.S = S2]
        [] f.kind = "raise" ->
             \* db.session.rollback()
             [L1 EXCEPT !.S = L1.C]
        [] f.kind = "body" ->
             \* delete the old advisories, add the parsed ones, commit
             LET S3 == [S2 EXCEPT !.advisories[s] = f.lines]
             IN  [L1 EXCEPT !.S = S3, !.C = S3]

\* what the loop would do without the try/except around its body: the first
\* failing storm ends the run, and the session is rolled back on exit
RECURSIVE DiscoverLoop_aborting(_, _, _, _)
DiscoverLoop_aborting(L, q, fetched, i) ==
  IF i > Len(q) THEN L
  ELSE IF fetched[q[i]].kind = "raise" THEN [L EXCEPT !.S = L.C]
  ELSE DiscoverLoop_aborting(IngestCycle(L, q[i], fetched[q[i]]), q, fetched, i + 1)

\* the for loop over discovered_storms, from its i-th storm on
RECURSIVE DiscoverLoop(_, _, _, _)
DiscoverLoop(L, q, fetched, i) ==
  IF i > Len(q) THEN L
  ELSE DiscoverLoop(IngestCycle(L, q[i], fetched[q[i]]), q, fetched, i + 1)

\* the rows one run of the task leaves committed, for the storms of the index
\* page in the order q and the outcomes fetched of their history fetches
RunResult(q, fetched) == DiscoverLoop([S |-> DB, C |-> DB], q, fetched, 1).C

DiscoverRun(q, fetched) ==
  /\ \E C \in {RunResult(q, fetched)} :
       /\ status' = C.status
       /\ advisories' = C.advisories
       /\ last_seen' = C.last_seen
       /\ last_status_change_at' = C.lsc
  /\ UNCHANGED <<now, tickIdx>>
  /\ UNCHANGED fcVars

\* the outcomes the history fetches of the storms in discovered can have
FetchOutcomes(discovered, newLines) ==
  {f \in [discovered -> UNION {Fetched(s, newLines) : s \in Storms}] :
     \A s \in discovered : f[s] \in Fetched(s, newLines)}

\* discovered: the storms discover_storms returned (none on 304 or error, and a
\* storm whose detail page failed is left out); q: their order on the page
discover_and_ingest_storms(newLines) ==
  \E discovered \in SUBSET Storms :
    \E q \in Perms(discovered) :
      \E fetched \in FetchOutcomes(discovered, newLines) :
        /\ DiscoverRun(q, fetched)
        /\ Emit(Event("discover_and_ingest_storms", {}, {}, {}, {}), DB')
        /\ UNCHANGED dataVars
        /\ UNCHANGED cache
        /\ UNCHANGED queue
        /\ UNCHANGED storm_rows

(* ---------------------------------------------------------------------- *)
(* tasks_archival                                                         *)
(* ---------------------------------------------------------------------- *)
\* the candidate query of check_dormant_storms and check_archive_storms:
\* the candidates of an outer join: a storm without advisories qualifies
Candidates_outer(st, hours) ==
  {s \in Storms : status[s] = st /\ \A a \in advisories[s] : a < now - hours}

\* storms JOIN advisories WHERE status = st AND issued_at_utc < threshold_time
\* GROUP BY storm HAVING max(issued_at_utc) < threshold_time.  The WHERE
\* clause filters the joined rows before they are grouped, so the maximum is
\* taken over the advisories older than the threshold only.
Candidates(st, hours) ==
  LET threshold_time == now - hours
  IN  {s \in Storms :
         /\ status[s] = st
         /\ LET joined == {a \in advisories[s] : a < threshold_time}
            IN  joined # {} /\ Max(joined) < threshold_time}

\* whether the task's audit write, notification or commit raises
TaskOutcomes == {"ok", "raise"}

check_dormant_storms ==
  \E outcome \in TaskOutcomes :
    LET dormant_candidates == Candidates("active", DORMANT_THRESHOLD)
    IN  /\ outcome = "raise" => dormant_candidates # {}
        /\ IF outcome = "ok"
           THEN /\ status' = [s \in Storms |->
                                IF s \in dormant_candidates THEN "dormant" ELSE status[s]]
                /\ last_status_change_at' = [s \in Storms |->
                                IF s \in dormant_candidates THEN now
                                ELSE last_status_change_at[s]]
                /\ Emit(Event("check_dormant_storms", dormant_candidates,
                           dormant_candidates, {}, {}), DB)
           ELSE \* the exception leaves the task before db.session.commit()
                /\ UNCHANGED <<status, last_status_change_at>>
                /\ Emit(Event("check_dormant_storms", {}, {}, {}, {}), DB)
        /\ UNCHANGED <<now, tickIdx, advisories, last_seen>>
        /\ UNCHANGED fcVars
        /\ UNCHANGED dataVars
        /\ UNCHANGED cache
        /\ UNCHANGED queue
        /\ UNCHANGED storm_rows

\* _pre_archive_validation, evaluated on the session's view S; pending is the
\* set of storms with an alert_events row whose delivery_status is pending or
\* sending
pre_archive_validation(S, s, pending) ==
  /\ S.advisories[s] # {}
  /\ s \notin pending

\* where archive_storm stops: "ok" it commits; "fail_artifacts" step 3 or 4
\* raises (after the status assignment, before the audit row);
\* "fail_cleanup" step 6 or 7 raises (after the audit row and notification)
ArchiveOutcomes == {"ok", "fail_artifacts", "fail_cleanup"}

\* the body of archive_storm for storm s in the session carried by L
archive_storm_body(L, s, outcome, pending) ==
  IF L.S.status[s] = "archived" THEN L
  ELSE IF ~pre_archive_validation(L.S, s, pending) THEN L
  ELSE
    LET S1 == [L.S EXCEPT !.status[s] = "archived", !.lsc[s] = now]
    IN  CASE outcome = "fail_artifacts" ->
               [L EXCEPT !.S = S1, !.raised = @ \cup {s}]
          [] outcome = "fail_cleanup" ->
               [L EXCEPT !.S = S1, !.pendAudit = @ \cup {s},
                         !.notified = @ \cup {s}, !.raised = @ \cup {s}]
          [] outcome = "ok" ->
               [L EXCEPT !.S = S1, !.C = S1,
                         !.audited = @ \cup L.pendAudit \cup {s}, !.pendAudit = {},
                         !.notified = @ \cup {s}]

NewSession ==
  [S |-> DB, C |-> DB, pendAudit |-> {}, audited |-> {}, notified |-> {}, raised |-> {}]

\* the for loop of check_archive_storms: an exception of archive_storm is
\* logged and the loop goes on, in the same session
RECURSIVE ArchiveLoop(_, _, _, _, _)
ArchiveLoop(L, q, outcome, pending, i) ==
  IF i > Len(q) THEN L
  ELSE ArchiveLoop(archive_storm_body(L, q[i], outcome[q[i]], pending),
                   q, outcome, pending, i + 1)

\* alerts: whether alert events can be in flight when the task runs
check_archive_storms(alerts) ==
  LET archive_candidates == Candidates("dormant", ARCHIVE_THRESHOLD)
  IN  \E q \in Perms(archive_candidates) :
        \E outcome \in [archive_candidates -> ArchiveOutcomes] :
          \E pending \in (IF alerts THEN SUBSET archive_candidates ELSE {{}}) :
            \E L \in {ArchiveLoop(NewSession, q, outcome, pending, 1)} :
                /\ \A s \in pending : outcome[s] = "ok"
                /\ status' = L.C.status
                /\ last_status_change_at' = L.C.lsc
                /\ Emit(Event("check_archive_storms", L.audited, L.notified,
                           L.raised, pending), L.C)
                /\ UNCHANGED <<now, tickIdx, advisories, last_seen>>
                /\ UNCHANGED fcVars
                /\ UNCHANGED dataVars
                /\ UNCHANGED cache
                /\ UNCHANGED queue
                /\ UNCHANGED storm_rows

\* archive_storm started on its own (the archive command), for any stored storm
archive_storm(s) ==
  /\ status[s] # "absent"
  /\ \E outcome \in ArchiveOutcomes :
       \E pending \in {{}, {s}} :
         \E L \in {archive_storm_body(NewSession, s, outcome, pending)} :
             /\ L.S = L.C => outcome = "ok"
             /\ status' = L.C.status
             /\ last_status_change_at' = L.C.lsc
             /\ Emit(Event("archive_storm", L.audited, L.notified, L.raised, pending), L.C)
  /\ UNCHANGED <<now, tickIdx, advisories, last_seen>>
  /\ UNCHANGED fcVars
  /\ UNCHANGED dataVars
  /\ UNCHANGED cache
  /\ UNCHANGED queue
  /\ UNCHANGED storm_rows

reactivate_storm(s) ==
  /\ status[s] # "absent"
  /\ \E outcome \in TaskOutcomes :
       /\ outcome = "raise" => status[s] = "dormant"
       /\ IF status[s] = "dormant" /\ outcome = "ok"
          THEN /\ status' = [status EXCEPT ![s] = "active"]
               /\ last_status_change_at' = [last_status_change_at EXCEPT ![s] = now]
               /\ Emit(Event("reactivate_storm", {s}, {s}, {}, {}), DB)
          ELSE /\ UNCHANGED <<status, last_status_change_at>>
               /\ Emit(Event("reactivate_storm", {}, {}, {}, {}), DB)
  /\ UNCHANGED <<now, tickIdx, advisories, last_seen>>
  /\ UNCHANGED fcVars
  /\ UNCHANGED dataVars
  /\ UNCHANGED cache
  /\ UNCHANGED queue
  /\ UNCHANGED storm_rows

(* ---------------------------------------------------------------------- *)
(* tasks_forecast.update_storm_forecast_task                              *)
(* ---------------------------------------------------------------------- *)
\* A forecast_points row is [storm, iss, lead, by]: every row the task
\* inserts has is_final = True, and by names the run that inserted it (the
\* table has no unique constraint, so two runs can insert rows that agree on
\* storm, issuance and lead).  A zones row is [storm, iss, by]: iss is the
\* latest issuance among the forecast points the zones were generated from.
\* tx[w] is the task a worker is running: pc is its position, mean the
\* computed mean forecast, src the latest issuance of the forecast points a
\* zone task has read, target the rows its DELETE statement matched and del
\* the rows that statement deleted in the open transaction.
IdleTx ==
  [pc |-> "idle", storm |-> "", mean |-> {}, src |-> 0, target |-> {}, del |-> {}]

\* the rows of a storm in the forecast_points and zones tables
PointsOf(s) == {r \in fpoints : r.storm = s}
ZonesOf(s) == {z \in zones : z.storm = s}

\* a per-storm task has returned: ev keeps the task, the storm and the status
\* of the returned dict
Returned(op, s, result) ==
  ev' = [NoEvent EXCEPT !.op = op, !.storm = s, !.result = result]

\* compute_mean_forecast: one point per forecast hour of the latest issuance
\* in the file
MeanForecast(iss, hours) == {[iss |-> iss, lead |-> h] : h \in hours}

\* the latest issuance an A-Deck file fetched now can hold: the file is only
\* appended to, so it is not older than what was stored from it before
Issuances(s) ==
  {i \in 1..MaxIssuance : \A r \in fpoints : r.storm = s => r.iss <= i}

\* what fetch_adeck returns: None (304, 404 or an error) or a body
AdeckResults == {"none", "body"}

\* lines 28-70: the storm is looked up and the A-Deck is fetched; without a
\* body the task returns no_data; else the file is parsed and filtered and
\* the mean is computed, and the task goes on with a non-empty mean forecast
forecast_fetched(w, s, adeck_result) ==
  /\ tx[w].pc = "idle"
  /\ status[s] # "absent"
  /\ IF adeck_result = "none"
     THEN /\ UNCHANGED tx
          /\ Returned("update_storm_forecast_task", s, "no_data")
     ELSE /\ \E iss \in Issuances(s) :
               \E hours \in HourSets :
                 tx' = [tx EXCEPT ![w] = [IdleTx EXCEPT !.pc = "computed",
                                             !.storm = s,
                                             !.mean = MeanForecast(iss, hours)]]
          /\ UNCHANGED ev
  /\ UNCHANGED <<fpoints, zones>>
  /\ UNCHANGED stormVars
  /\ UNCHANGED dataVars

forecast_begin(w, s) ==
  /\ \E adeck_result \in AdeckResults : forecast_fetched(w, s, adeck_result)
  /\ UNCHANGED cache
  /\ UNCHANGED queue
  /\ UNCHANGED storm_rows

\* rows another open transaction has deleted and not yet committed
LockedByOthers(w) == UNION {tx[v].del : v \in Workers \ {w}}

\* what line 73 would do if its filter matched no row
forecast_delete_unmatched(w) ==
  /\ tx[w].pc = "computed"
  /\ tx' = [tx EXCEPT ![w].pc = "deleted", ![w].target = {}, ![w].del = {}]
  /\ UNCHANGED <<fpoints, zones, ev>>
  /\ UNCHANGED stormVars
  /\ UNCHANGED dataVars
  /\ UNCHANGED cache
  /\ UNCHANGED queue
  /\ UNCHANGED storm_rows

\* what line 73 would do in a session in autocommit mode: the deletion is
\* visible to readers at once
forecast_delete_autocommit(w) ==
  /\ tx[w].pc = "computed"
  /\ fpoints' = fpoints \ PointsOf(tx[w].storm)
  /\ tx' = [tx EXCEPT ![w].pc = "deleted"]
  /\ UNCHANGED <<zones, ev>>
  /\ UNCHANGED stormVars
  /\ UNCHANGED dataVars
  /\ UNCHANGED cache
  /\ UNCHANGED queue
  /\ UNCHANGED storm_rows

\* line 73: DELETE ... WHERE storm_id = :id AND is_final.  The statement
\* matches the rows committed when it starts; it waits for a row another
\* transaction has deleted
forecast_delete(w) ==
  /\ tx[w].pc = "computed"
  /\ LET matched == PointsOf(tx[w].storm)
     IN  IF matched \cap LockedByOthers(w) = {}
         THEN tx' = [tx EXCEPT ![w].pc = "deleted", ![w].target = matched,
                               ![w].del = matched]
         ELSE tx' = [tx EXCEPT ![w].pc = "waiting", ![w].target = matched]
  /\ UNCHANGED <<fpoints, zones, ev>>
  /\ UNCHANGED stormVars
  /\ UNCHANGED dataVars
  /\ UNCHANGED cache
  /\ UNCHANGED queue
  /\ UNCHANGED storm_rows

\* the other transaction has ended: the waiting DELETE goes on with the rows
\* it matched that are still there (READ COMMITTED), and does not see rows
\* committed since it started
forecast_delete_resume(w) ==
  /\ tx[w].pc = "waiting"
  /\ tx[w].target \cap LockedByOthers(w) = {}
  /\ tx' = [tx EXCEPT ![w].pc = "deleted", ![w].del = tx[w].target \cap fpoints]
  /\ UNCHANGED <<fpoints, zones, ev>>
  /\ UNCHANGED stormVars
  /\ UNCHANGED dataVars
  /\ UNCHANGED cache
  /\ UNCHANGED queue
  /\ UNCHANGED storm_rows

\* the rows a run inserts for its mean forecast
NewPoints(w) ==
  {[storm |-> tx[w].storm, iss |-> p.iss, lead |-> p.lead, by |-> w] : p \in tx[w].mean}

\* lines 76-93: the new points are added and the transaction commits
forecast_committed(w) ==
  /\ tx[w].pc = "deleted"
  /\ fpoints' = (fpoints \ tx[w].del) \cup NewPoints(w)
  /\ tx' = [tx EXCEPT ![w].pc = "committed", ![w].target = {}, ![w].del = {}]
  /\ UNCHANGED <<zones, ev>>
  /\ UNCHANGED stormVars
  /\ UNCHANGED dataVars
  /\ UNCHANGED cache

forecast_commit(w) ==
  /\ forecast_committed(w)
  /\ UNCHANGED queue
  /\ UNCHANGED storm_rows

\* forecast_returned with the DELETE and INSERT statements still uncommitted
\* when the task goes on to line 95
forecast_returned_uncommitted(w) ==
  /\ tx[w].pc \in {"deleted", "committed"}
  /\ Returned("update_storm_forecast_task", tx[w].storm, "success")
  /\ tx' = [tx EXCEPT ![w] = IdleTx]
  /\ UNCHANGED <<fpoints, zones>>
  /\ UNCHANGED stormVars
  /\ UNCHANGED dataVars
  /\ UNCHANGED cache

\* lines 95-109: regenerate_storm_zones_task.delay(storm_id), the WebSocket
\* notification, and the task returns
forecast_returned(w) ==
  /\ tx[w].pc = "committed"
  /\ Returned("update_storm_forecast_task", tx[w].storm, "success")
  /\ tx' = [tx EXCEPT ![w] = IdleTx]
  /\ UNCHANGED <<fpoints, zones>>
  /\ UNCHANGED stormVars
  /\ UNCHANGED dataVars
  /\ UNCHANGED cache

\* the return where the queue is not followed
forecast_return(w) ==
  /\ forecast_returned(w)
  /\ UNCHANGED queue
  /\ UNCHANGED storm_rows

\* lines 111-116: an exception ends the task; what it has not committed is
\* not committed
forecast_failed(w) ==
  /\ tx[w].pc \in {"computed", "waiting", "deleted", "committed"}
  /\ Returned("update_storm_forecast_task", tx[w].storm, "error")
  /\ tx' = [tx EXCEPT ![w] = IdleTx]
  /\ UNCHANGED <<fpoints, zones>>
  /\ UNCHANGED stormVars
  /\ UNCHANGED dataVars
  /\ UNCHANGED cache

forecast_fail(w) ==
  /\ forecast_failed(w)
  /\ UNCHANGED queue
  /\ UNCHANGED storm_rows

\* update_storm_forecast_task, as started by update_all_forecasts_task, by
\* rebuild_forecast_task or by hand, on any worker
update_storm_forecast_task(w) ==
  \/ \E s \in Storms : forecast_begin(w, s)
  \/ forecast_delete(w)
  \/ forecast_delete_resume(w)
  \/ forecast_commit(w)
  \/ forecast_return(w)
  \/ forecast_fail(w)

(* ---------------------------------------------------------------------- *)
(* tasks_zones.regenerate_storm_zones_task                                *)
(* ---------------------------------------------------------------------- *)
\* zone_begin without the test of line 34: the task goes on to the DELETE
\* with no forecast point
zone_begin_unchecked(w, s) ==
  /\ tx[w].pc = "idle"
  /\ status[s] # "absent"
  /\ tx' = [tx EXCEPT ![w] = [IdleTx EXCEPT !.pc = "zread", !.storm = s]]
  /\ UNCHANGED <<fpoints, zones, ev>>
  /\ UNCHANGED stormVars
  /\ UNCHANGED dataVars
  /\ UNCHANGED cache
  /\ UNCHANGED queue
  /\ UNCHANGED storm_rows

\* lines 26-36: the storm is looked up and its final forecast points are read
\* (get_latest_forecast); with none the task returns no_forecast
zone_read(w, s) ==
  /\ tx[w].pc = "idle"
  /\ status[s] # "absent"
  /\ IF PointsOf(s) = {}
     THEN /\ UNCHANGED tx
          /\ Returned("regenerate_storm_zones_task", s, "no_forecast")
     ELSE /\ tx' = [tx EXCEPT ![w] = [IdleTx EXCEPT !.pc = "zread", !.storm = s,
                                       !.src = Max({p.iss : p \in PointsOf(s)})]]
          /\ UNCHANGED ev
  /\ UNCHANGED <<fpoints, zones>>
  /\ UNCHANGED stormVars
  /\ UNCHANGED dataVars
  /\ UNCHANGED cache

zone_begin(w, s) ==
  /\ zone_read(w, s)
  /\ UNCHANGED queue
  /\ UNCHANGED storm_rows

\* line 41: Zone.query.filter_by(storm_id=storm_id).delete()
zone_delete(w) ==
  /\ tx[w].pc = "zread"
  /\ LET matched == ZonesOf(tx[w].storm)
     IN  IF matched \cap LockedByOthers(w) = {}
         THEN tx' = [tx EXCEPT ![w].pc = "zdeleted", ![w].target = matched,
                               ![w].del = matched]
         ELSE tx' = [tx EXCEPT ![w].pc = "zwaiting", ![w].target = matched]
  /\ UNCHANGED <<fpoints, zones, ev>>
  /\ UNCHANGED stormVars
  /\ UNCHANGED dataVars
  /\ UNCHANGED cache
  /\ UNCHANGED queue
  /\ UNCHANGED storm_rows

zone_delete_resume(w) ==
  /\ tx[w].pc = "zwaiting"
  /\ tx[w].target \cap LockedByOthers(w) = {}
  /\ tx' = [tx EXCEPT ![w].pc = "zdeleted", ![w].del = tx[w].target \cap zones]
  /\ UNCHANGED <<fpoints, zones, ev>>
  /\ UNCHANGED stormVars
  /\ UNCHANGED dataVars
  /\ UNCHANGED cache
  /\ UNCHANGED queue
  /\ UNCHANGED storm_rows

\* what generate_watch_zones + generate_warning_zones return: "some" zones,
\* or "empty" when no forecast point falls into a window or when
\* build_zone_polygons raised (both functions log the exception and return
\* what they have)
Generated == {"some", "empty"}

\* the rows a run inserts for the zones it generated
NewZones(w, generated) ==
  IF generated = "some"
  THEN {[storm |-> tx[w].storm, iss |-> tx[w].src, by |-> w]}
  ELSE {}

\* lines 44-88: the zones are generated and added and the transaction
\* commits; the notifications are sent and the task returns
zone_commit(w) ==
  /\ tx[w].pc = "zdeleted"
  /\ \E generated \in Generated :
       zones' = (zones \ tx[w].del) \cup NewZones(w, generated)
  /\ Returned("regenerate_storm_zones_task", tx[w].storm, "success")
  /\ tx' = [tx EXCEPT ![w] = IdleTx]
  /\ UNCHANGED fpoints
  /\ UNCHANGED stormVars
  /\ UNCHANGED dataVars
  /\ UNCHANGED cache
  /\ UNCHANGED queue
  /\ UNCHANGED storm_rows

\* lines 83-88: an exception outside the two generate functions ends the
\* task; nothing of it is committed
zone_fail(w) ==
  /\ tx[w].pc \in {"zread", "zwaiting", "zdeleted"}
  /\ Returned("regenerate_storm_zones_task", tx[w].storm, "error")
  /\ tx' = [tx EXCEPT ![w] = IdleTx]
  /\ UNCHANGED <<fpoints, zones>>
  /\ UNCHANGED stormVars
  /\ UNCHANGED dataVars
  /\ UNCHANGED cache
  /\ UNCHANGED queue
  /\ UNCHANGED storm_rows

\* regenerate_storm_zones_task, as started by regenerate_all_zones_task, by
\* a forecast update or by hand, on any worker
regenerate_storm_zones_task(w) ==
  \/ \E s \in Storms : zone_begin(w, s)
  \/ zone_delete(w)
  \/ zone_delete_resume(w)
  \/ zone_commit(w)
  \/ zone_fail(w)

(* ---------------------------------------------------------------------- *)
(* Lifecycle specification                                                *)
(* ---------------------------------------------------------------------- *)
Init ==
  /\ now = Instants[1]
  /\ tickIdx = 1
  /\ status = [s \in Storms |-> "absent"]
  /\ advisories = [s \in Storms |-> {}]
  /\ last_seen = [s \in Storms |-> NULL]
  /\ last_status_change_at = [s \in Storms |-> NULL]
  /\ ev = NoEvent
  /\ fpoints = {}
  /\ zones = {}
  /\ tx = [w \in Workers |-> IdleTx]
  /\ given = NoInput
  /\ made = NotMade
  /\ cache = NoValidators
  /\ queue = NoQueue
  /\ storm_rows = NoRows

Next ==
  \/ Tick
  \/ discover_and_ingest_storms(TRUE)
  \/ check_dormant_storms
  \/ check_archive_storms(TRUE)
  \/ \E s \in Storms : archive_storm(s)
  \/ \E s \in Storms : reactivate_storm(s)

Spec == Init /\ [][Next]_vars

(* ---------------------------------------------------------------------- *)
(* Lifecycle properties                                                   *)
(* ---------------------------------------------------------------------- *)
\* the edges of the lifecycle state machine, and the creation of a storm
LifecycleEdges ==
  {<<"absent", "active">>, <<"active", "dormant">>, <<"dormant", "active">>,
   <<"dormant", "archived">>}

\* C1: over any interleaving of the lifecycle tasks a stored storm's status
\* changes only along active->dormant, dormant->active and dormant->archived;
\* never active->archived, never from archived to anything else.
C1_OnlyLifecycleEdges ==
  [][\A s \in Storms :
       status'[s] # status[s] => <<status[s], status'[s]>> \in LifecycleEdges]_vars

\* C2: once a storm is archived no run of any task changes its advisories,
\* forecast points, zones or last_seen.
C2_ArchivedImmutable ==
  [][\A s \in Storms :
       status[s] = "archived" =>
         /\ advisories'[s] = advisories[s]
         /\ last_seen'[s] = last_seen[s]
         /\ PointsOf(s)' = PointsOf(s)
         /\ ZonesOf(s)' = ZonesOf(s)]_vars

\* C3: after a batch of check_archive_storms a storm whose archive_storm raised
\* after the status assignment is still dormant, and a storm becomes archived
\* only in a commit that holds its storm_archived audit row.
C3_ArchiveAllOrNothing ==
  /\ [](ev.op = "check_archive_storms" => \A s \in ev.raised : status[s] = "dormant")
  /\ [][\A s \in Storms :
          (status[s] # "archived" /\ status'[s] = "archived") => s \in ev'.audited]_vars

\* an advisory issued later than every advisory stored before is stored
NewerAdvisoryIngested(s) ==
  \E a \in advisories'[s] : \A b \in advisories[s] : a > b

\* C4: a dormant storm becomes active exactly when an ingest stores an advisory
\* issued later than every advisory stored before; being listed again or a
\* refetch of the same lines leaves it dormant.
C4_ReactivatedOnlyByNewerAdvisory ==
  [][\A s \in Storms :
       status[s] = "dormant" => (status'[s] = "active" <=> NewerAdvisoryIngested(s))]_vars

\* the storm has an advisory and its most recent advisory was issued more than
\* hours before now
StaleFor(s, hours) ==
  advisories[s] # {} /\ Max(advisories[s]) < now - hours

\* C5: a run of check_dormant_storms turns to dormant exactly the active storms
\* whose most recent advisory is more than 24 h old, and leaves the status of
\* every other storm.
C5_DormantExactlyStale ==
  [][check_dormant_storms =>
       \A s \in Storms :
         status'[s] = IF status[s] = "active" /\ StaleFor(s, DORMANT_THRESHOLD)
                      THEN "dormant" ELSE status[s]]_vars

\* C6: check_archive_storms archives a dormant storm only if its most recent
\* advisory is more than 168 h old, it has an advisory and none of its alert
\* events is pending or sending; any other dormant storm stays dormant.
C6_ArchiveOnlyStaleAndQuiet ==
  [][check_archive_storms(TRUE) =>
       \A s \in Storms :
         status[s] = "dormant" =>
           \/ status'[s] = "dormant"
           \/ /\ status'[s] = "archived"
              /\ StaleFor(s, ARCHIVE_THRESHOLD)
              /\ s \notin ev'.pending]_vars

\* C7: every committed change of a stored storm's status comes with an audit
\* row in the same commit and with a status notification.
C7_StatusChangeAudited ==
  [][\A s \in Storms :
       (status[s] # "absent" /\ status'[s] # status[s]) =>
          s \in ev'.audited /\ s \in ev'.notified]_vars

\* C8: every change of a stored storm's status sets last_status_change_at to
\* the time of the change, and the stored timestamp never decreases.
C8_StatusChangeTimestamp ==
  [][\A s \in Storms :
       /\ (status[s] # "absent" /\ status'[s] # status[s]) =>
             last_status_change_at'[s] = now'
       /\ last_status_change_at'[s] >= last_status_change_at[s]]_vars

(* ---------------------------------------------------------------------- *)
(* The periodic jobs under fair scheduling, with a quiet upstream         *)
(* ---------------------------------------------------------------------- *)
\* both storms were discovered and ingested at hour 0 (a state of Spec); from
\* here on the upstream issues no new line and no alert event is in flight
InitLive ==
  /\ now = Instants[1]
  /\ tickIdx = 1
  /\ status = [s \in Storms |-> "active"]
  /\ advisories = [s \in Storms |-> {Instants[1]}]
  /\ last_seen = [s \in Storms |-> Instants[1]]
  /\ last_status_change_at = [s \in Storms |-> NULL]
  /\ ev = Event("discover_and_ingest_storms", {}, {}, {}, {})
  /\ fpoints = {}
  /\ zones = {}
  /\ tx = [w \in Workers |-> IdleTx]
  /\ given = NoInput
  /\ made = NotMade
  /\ cache = NoValidators
  /\ queue = NoQueue
  /\ storm_rows = NoRows

NextLive ==
  \/ Tick
  \/ discover_and_ingest_storms(FALSE)
  \/ check_dormant_storms
  \/ check_archive_storms(FALSE)

\* celery beat starts every periodic job again and again: a job that stays
\* able to change something eventually runs and changes it
SpecLive ==
  /\ InitLive
  /\ [][NextLive]_vars
  /\ WF_vars(Tick)
  /\ WF_vars(discover_and_ingest_storms(FALSE))
  /\ WF_vars(check_dormant_storms)
  /\ WF_vars(check_archive_storms(FALSE))

\* C9: with no new advisory and no pending alert, a storm whose latest advisory
\* is more than 24 h old eventually becomes dormant and one whose latest
\* advisory is more than 168 h old eventually becomes archived, also while
\* discovery still lists it.
C9_EventuallyDormantThenArchived ==
  \A s \in Storms :
    /\ (status[s] = "active" /\ StaleFor(s, DORMANT_THRESHOLD))
          ~> (status[s] \in {"dormant", "archived"})
    /\ (status[s] \in {"active", "dormant"} /\ StaleFor(s, ARCHIVE_THRESHOLD))
          ~> (status[s] = "archived")

(* ---------------------------------------------------------------------- *)
(* Forecast updates on concurrent workers                                 *)
(* ---------------------------------------------------------------------- *)
\* one storm was discovered and ingested at hour 0 (a state of Spec); it has
\* no forecast yet
InitForecast ==
  /\ now = Instants[1]
  /\ tickIdx = 1
  /\ status = [t \in Storms |-> IF t = "28W" THEN "active" ELSE "absent"]
  /\ advisories = [t \in Storms |-> IF t = "28W" THEN {Instants[1]} ELSE {}]
  /\ last_seen = [t \in Storms |-> IF t = "28W" THEN Instants[1] ELSE NULL]
  /\ last_status_change_at = [s \in Storms |-> NULL]
  /\ ev = Event("discover_and_ingest_storms", {}, {}, {}, {})
  /\ fpoints = {}
  /\ zones = {}
  /\ tx = [w \in Workers |-> IdleTx]
  /\ given = NoInput
  /\ made = NotMade
  /\ cache = NoValidators
  /\ queue = NoQueue
  /\ storm_rows = NoRows

NextForecast ==
  \/ \E w \in Workers : update_storm_forecast_task(w)
  \/ \E w \in Workers : regenerate_storm_zones_task(w)

SpecForecast == InitForecast /\ [][NextForecast]_vars

\* C10: in every committed state the final forecast points of a storm form
\* one mean track: they share one issuance time and no two of them have the
\* same lead hours, also when two runs of the update for one storm overlap.
C10_OneFinalTrack ==
  \A s \in Storms :
    \A p, r \in PointsOf(s) :
      /\ p.iss = r.iss
      /\ p # r => p.lead # r.lead

(* ---------------------------------------------------------------------- *)
(* Replace-all writes of the forecast and zone tasks                      *)
(* ---------------------------------------------------------------------- *)
\* C11: the committed final forecast points (respectively zones) of a storm
\* change only in the commit step of a task for that storm, and that step
\* takes away the deleted rows and adds the new rows at once: a reader sees
\* the old rows or the new rows, never the deletion alone; a storm that has
\* final forecast points never has none afterwards.
C11_ReplaceVisibleTogether ==
  [][\A s \in Storms :
       /\ PointsOf(s)' # PointsOf(s) =>
             \E w \in Workers :
               /\ tx[w].pc = "deleted" /\ tx[w].storm = s /\ tx'[w].pc = "committed"
               /\ NewPoints(w) # {}
               /\ PointsOf(s)' = (PointsOf(s) \ tx[w].del) \cup NewPoints(w)
       /\ PointsOf(s) # {} => PointsOf(s)' # {}
       /\ ZonesOf(s)' # ZonesOf(s) =>
             \E w \in Workers :
               /\ tx[w].pc = "zdeleted" /\ tx[w].storm = s /\ tx'[w].pc = "idle"
               /\ \E generated \in Generated :
                    ZonesOf(s)' = (ZonesOf(s) \ tx[w].del) \cup NewZones(w, generated)]_vars

\* a forecast task and a zone task have each deleted the rows of a storm in
\* their open transactions, and readers still see those rows
C11_Witness ==
  \E w, v \in Workers :
    /\ tx[w].pc = "deleted" /\ tx[w].del # {} /\ tx[w].del \subseteq fpoints
    /\ tx[v].pc = "zdeleted" /\ tx[v].del # {} /\ tx[v].del \subseteq zones

\* C12: when a zone task returns for a storm that had zones - also when the
\* polygon construction raised or yielded no polygon - the storm still has
\* zones.
C12_ZonesKeptWhenNothingBuilt ==
  [][\A w \in Workers : \A s \in Storms :
       (tx[w].pc \in {"zread", "zwaiting", "zdeleted"} /\ tx[w].storm = s
          /\ tx'[w].pc = "idle" /\ ZonesOf(s) # {})
       => ZonesOf(s)' # {}]_vars

(* ---------------------------------------------------------------------- *)
(* Zone tasks on a fixed forecast                                         *)
(* ---------------------------------------------------------------------- *)
\* both storms are stored; 28W has a forecast and the zones generated from
\* it, 03S has no forecast yet (a state the forecast and zone tasks reach
\* after the ingest of two storms)
InitZones ==
  /\ now = Instants[1]
  /\ tickIdx = 1
  /\ status = [s \in Storms |-> "active"]
  /\ advisories = [s \in Storms |-> {Instants[1]}]
  /\ last_seen = [s \in Storms |-> Instants[1]]
  /\ last_status_change_at = [s \in Storms |-> NULL]
  /\ ev = [NoEvent EXCEPT !.op = "regenerate_storm_zones_task", !.storm = "28W",
                          !.result = "success"]
  /\ fpoints = {[storm |-> "28W", iss |-> 1, lead |-> h, by |-> "w1"] : h \in LeadHours}
  /\ zones = {[storm |-> "28W", iss |-> 1, by |-> "w1"]}
  /\ tx = [w \in Workers |-> IdleTx]
  /\ given = NoInput
  /\ made = NotMade
  /\ cache = NoValidators
  /\ queue = NoQueue
  /\ storm_rows = NoRows

NextZones == \E w \in Workers : regenerate_storm_zones_task(w)

SpecZones == InitZones /\ [][NextZones]_vars

ZonePcs == {"zread", "zwaiting", "zdeleted"}

\* C13: a zone task started for a storm without final forecast points
\* returns no_forecast at once and changes no zone row; a storm without
\* forecast points has no zone and no zone transaction in flight.
C13_NoForecastNoZoneChange ==
  /\ [](\A s \in Storms :
          PointsOf(s) = {} =>
            /\ ZonesOf(s) = {}
            /\ \A w \in Workers : tx[w].pc \in ZonePcs => tx[w].storm # s)
  /\ [][\A w \in Workers : \A s \in Storms :
          (zone_begin(w, s) /\ PointsOf(s) = {}) =>
             /\ zones' = zones
             /\ tx' = tx
             /\ ev'.result = "no_forecast"]_vars

\* a zone task has returned no_forecast for 03S while 28W has zones
C13_Witness ==
  /\ ev.op = "regenerate_storm_zones_task"
  /\ ev.storm = "03S"
  /\ ev.result = "no_forecast"
  /\ PointsOf("03S") = {}
  /\ ZonesOf("28W") # {}

(* ---------------------------------------------------------------------- *)
(* The fetching tasks, one run at a time                                  *)
(* ---------------------------------------------------------------------- *)
\* what the upstream can answer to the request for a history file: the file,
\* not modified, a client error, a server error
HistoryResponses == {"200", "304", "403", "500"}

\* fetch_history_file: the requests it sends when the first one is answered
\* by response (one session.get, no loop around it), and what it returns
history_requests(response) == <<response>>
history_result(response) == IF response = "200" THEN "content" ELSE "none"

\* what the fetch and the parse of a storm's iteration can come to when the
\* upstream answers response
FetchedFor(s, response) ==
  {f \in Fetched(s, TRUE) :
     IF history_result(response) = "none" THEN f.kind = "none"
     ELSE f.kind \in {"body", "raise"}}

\* one run of discover_and_ingest_storms as seen by an observer of its log:
\* ev keeps, for one of the storms of the index page, what its iteration came
\* to ("body": ingested, "raise": the iteration failed, else the response
\* that made the fetch return None), and "no_storms" when discover_storms
\* returned no storm (304 or error on the index page)
discover_and_ingest_observed ==
  \E discovered \in SUBSET Storms :
    \E q \in Perms(discovered) :
      \E fetched \in FetchOutcomes(discovered, TRUE) :
        /\ DiscoverRun(q, fetched)
        /\ UNCHANGED dataVars
        /\ UNCHANGED cache
        /\ UNCHANGED queue
        /\ UNCHANGED storm_rows
        /\ IF discovered = {}
           THEN Returned("discover_and_ingest_storms", "", "no_storms")
           ELSE \E s \in discovered :
                  \E response \in HistoryResponses :
                    /\ fetched[s] \in FetchedFor(s, response)
                    /\ Returned("discover_and_ingest_storms", s,
                                IF fetched[s].kind = "none" THEN response
                                ELSE fetched[s].kind)

\* the ingest task and the forecast update of one worker, at one instant of
\* the clock
NextFetch ==
  \/ discover_and_ingest_observed
  \/ \E s \in Storms : forecast_begin("w1", s)
  \/ forecast_delete("w1")
  \/ forecast_commit("w1")
  \/ forecast_return("w1")
  \/ forecast_fail("w1")

SpecFetch == Init /\ [][NextFetch]_vars

AllIdle == \A w \in Workers : tx[w].pc = "idle"

\* the columns of forecast_points rows that come from the A-Deck file
Content(rows) == {[iss |-> r.iss, lead |-> r.lead] : r \in rows}

\* the ingest task and the forecast update on either worker, one run at a
\* time and at one instant of the clock
NextTwice ==
  \/ discover_and_ingest_storms(TRUE)
  \/ \E w \in Workers : \E s \in Storms : AllIdle /\ forecast_begin(w, s)
  \/ \E w \in Workers : forecast_delete(w)
  \/ \E w \in Workers : forecast_commit(w)
  \/ \E w \in Workers : forecast_return(w)
  \/ \E w \in Workers : forecast_fail(w)

SpecTwice == Init /\ [][NextTwice]_vars

ForecastPcs == {"computed", "waiting", "deleted", "committed"}

\* the job a busy worker is running
JobOf(w) ==
  IF tx[w].pc \in ForecastPcs THEN "update_storm_forecast_task"
  ELSE "regenerate_storm_zones_task"

\* C16: no two workers execute the same per-storm job for the same storm at
\* the same time.
C16_OneRunPerJobAndStorm ==
  \A w, v \in Workers :
    (w # v /\ tx[w].pc # "idle" /\ tx[v].pc # "idle" /\ tx[w].storm = tx[v].storm)
      => JobOf(w) # JobOf(v)

\* C17: no worker executes regenerate_storm_zones_task for a storm while
\* another worker is still executing update_storm_forecast_task for that
\* storm.
C17_ZonesAfterForecast ==
  \A w, v \in Workers :
    (tx[w].pc \in ZonePcs /\ tx[v].pc \in ForecastPcs) => tx[w].storm # tx[v].storm

(* ---------------------------------------------------------------------- *)
(* Periodic jobs while the index page answers 304                         *)
(* ---------------------------------------------------------------------- *)
\* the issuance times of the lines the upstream history file of a storm holds
\* now: the upstream appends a line at every instant of the clock
Published(s) == {Instants[i] : i \in 1..tickIdx}

\* a run of discover_and_ingest_storms in which the index page answers 304:
\* discover_storms returns no storm and the loop has nothing to go through
discover_index_not_modified ==
  \E q \in Perms({}) :
    \E fetched \in FetchOutcomes({}, TRUE) :
      /\ DiscoverRun(q, fetched)
      /\ UNCHANGED dataVars
      /\ UNCHANGED cache
      /\ UNCHANGED queue
      /\ UNCHANGED storm_rows
      /\ Returned("discover_and_ingest_storms", "", "no_storms")

\* the clock, the ingest task and the per-storm forecast and zone tasks of one
\* worker
NextQuiet ==
  \/ Tick
  \/ discover_index_not_modified
  \/ \E s \in Storms : forecast_begin("w1", s)
  \/ forecast_delete("w1")
  \/ forecast_commit("w1")
  \/ forecast_return("w1")
  \/ forecast_fail("w1")
  \/ \E s \in Storms : zone_begin("w1", s)
  \/ zone_delete("w1")
  \/ zone_commit("w1")
  \/ zone_fail("w1")

\* celery beat starts every periodic job again and again, and a worker takes
\* every step of a task it has started
SpecQuiet ==
  /\ InitForecast
  /\ [][NextQuiet]_vars
  /\ WF_vars(Tick)
  /\ WF_vars(discover_index_not_modified)
  /\ WF_vars(\E s \in Storms : forecast_begin("w1", s))
  /\ WF_vars(forecast_delete("w1"))
  /\ WF_vars(forecast_commit("w1"))
  /\ WF_vars(forecast_return("w1"))
  /\ WF_vars(\E s \in Storms : zone_begin("w1", s))
  /\ WF_vars(zone_delete("w1"))
  /\ WF_vars(zone_commit("w1"))

\* C18: while the index page keeps answering 304, every line the upstream has
\* published for an active storm is eventually among the storm's stored
\* advisories.
C18_PublishedEventuallyIngested ==
  \A s \in Storms :
    \A i \in 1..Len(Instants) :
      (status[s] = "active" /\ Instants[i] \in Published(s))
        ~> (Instants[i] \in advisories[s])

(* ---------------------------------------------------------------------- *)
(* Fetch errors and the writes of an ingest cycle                         *)
(* ---------------------------------------------------------------------- *)
\* responses that stand for a transient error (5xx) and for a permanent one
\* (4xx other than 404)
TransientResponses == {"500"}
PermanentResponses == {"403"}

\* C19: when the history fetch of an ingest cycle has met a transient error,
\* the fetch sent the request again (up to three retries) before it gave up;
\* when it has met a permanent error, it sent a single request.
C19_TransientRetriedPermanentNot ==
  ev.op = "discover_and_ingest_storms" =>
    /\ ev.result \in TransientResponses =>
         Len(history_requests(ev.result)) \in 2..4
    /\ ev.result \in PermanentResponses =>
         Len(history_requests(ev.result)) = 1

\* the rows of the storms table and the advisories of one storm
RowsOf(s) ==
  <<status[s], advisories[s], last_seen[s], last_status_change_at[s]>>

\* C20: a step of the ingest task (it logs a run or changes a storm row) in
\* which the cycle of a storm failed, or in which the cycle of a stored storm
\* made no commit because its fetch returned nothing, leaves the committed
\* storm row and advisories of that storm as they were.
C20_CycleAllOrNothing ==
  [][\A s \in Storms :
       ( /\ ev'.op = "discover_and_ingest_storms"
         /\ ev' # ev \/ DB' # DB
         /\ ev'.storm = s
         /\ \/ ev'.result = "raise"
            \/ ev'.result \in HistoryResponses /\ status[s] # "absent" )
       => RowsOf(s)' = RowsOf(s)]_vars

(* ---------------------------------------------------------------------- *)
(* Failures of single storms within a discovery run                       *)
(* ---------------------------------------------------------------------- *)
\* discover_storms: of the storms listed on the index page, those whose
\* detail page could be fetched and names a history file; _fetch_storm_details
\* returns None for the others and _parse_all_storms goes on
discover_storms(listed, detail_ok) == {s \in listed : detail_ok[s]}

\* C21: in every state, whatever storms the index page lists, whichever
\* detail pages fail and whichever iterations raise, a run of
\* discover_and_ingest_storms ingests every listed storm whose detail page and
\* history file were fetched and parsed: the storm is active, seen now, and
\* its advisories are the lines of its file.
C21_OtherStormsStillProcessed ==
  \A listed \in SUBSET Storms :
    \A detail_ok \in [listed -> BOOLEAN] :
      \E discovered \in {discover_storms(listed, detail_ok)} :
        \A q \in Perms(discovered) :
          \A fetched \in FetchOutcomes(discovered, TRUE) :
            \E C \in {RunResult(q, fetched)} :
              \A t \in discovered :
                fetched[t].kind = "body" =>
                  /\ C.status[t] = "active"
                  /\ C.last_seen[t] = now
                  /\ C.advisories[t] = fetched[t].lines

\* the iteration of one storm has raised, that storm was created and has no
\* advisory, and the other storm has the advisory issued now
C21_Witness ==
  /\ ev.op = "discover_and_ingest_storms"
  /\ ev.result = "raise"
  /\ status[ev.storm] = "active"
  /\ advisories[ev.storm] = {}
  /\ \E t \in Storms \ {ev.storm} : advisories[t] = {now} /\ last_seen[t] = now

(* ---------------------------------------------------------------------- *)
(* adt_list_parser and the advisories an ingest cycle inserts             *)
(* ---------------------------------------------------------------------- *)
\* the elements of a sequence
Range(seq) == {seq[i] : i \in 1..Len(seq)}

\* sequences over S of at most n elements
SeqsUpTo(S, n) == UNION {[1..k -> S] : k \in 0..n}

\* A line of a history file is told by its form: "blank", "header" (one of
\* the lines parse_file skips), "short" (fewer than 20 columns), "garbled" (a
\* date, time or number column does not parse) or "data" (all columns parse);
\* a data line carries its date and time (as an hour), latitude, longitude
\* and Vmax.
LineTimes == {0, 24}
Positions == {<<45, 100>>, <<91, 100>>, <<45, -181>>}
Winds == {-5, 30}

HistoryLines ==
  {[form |-> f, time |-> 0, lat |-> 0, lon |-> 0, vmax |-> 0] :
     f \in {"blank", "header", "short", "garbled"}}
  \cup {[form |-> "data", time |-> t, lat |-> p[1], lon |-> p[2], vmax |-> v] :
          t \in LineTimes, p \in Positions, v \in Winds}

\* ADTListParser.parse_line: the record of a line, as a sequence of at most
\* one record (the code returns None for no record)
adt_parse_line(l) ==
  IF l.form = "data" /\ l.lat \in -90..90 /\ l.lon \in -180..180
  THEN <<[timestamp |-> l.time, latitude |-> l.lat, longitude |-> l.lon,
          vmax_kt |-> l.vmax]>>
  ELSE <<>>

\* ADTListParser.parse_file: the records of the lines that are not skipped
\* and yield one, in file order; it returns nothing else
RECURSIVE adt_parse_file(_)
adt_parse_file(lines) ==
  IF lines = <<>> THEN <<>>
  ELSE IF Head(lines).form \in {"blank", "header"} THEN adt_parse_file(Tail(lines))
  ELSE adt_parse_line(Head(lines)) \o adt_parse_file(Tail(lines))

\* lines 77-89 of tasks_ingest: one Advisory per parsed record
AdvisoryRows(records) ==
  [i \in 1..Len(records) |->
     [advisory_no |-> i, issued_at |-> records[i].timestamp,
      lat |-> records[i].latitude, lon |-> records[i].longitude,
      vmax_kt |-> records[i].vmax_kt]]

\* the ingest cycle of the storm given.storm on the fetched history file
\* given.lines: made keeps the parsed records and the Advisory rows inserted
ingest_history_file ==
  /\ given.kind = "history"
  /\ ~made.done
  /\ UNCHANGED cache
  /\ UNCHANGED queue
  /\ UNCHANGED storm_rows
  /\ \E records \in {adt_parse_file(given.lines)} :
       /\ DiscoverRun(<<given.storm>>,
                      [s \in {given.storm} |->
                         [kind |-> "body",
                          lines |-> {r.timestamp : r \in Range(records)}]])
       /\ made' = [done |-> TRUE, records |-> records, errors |-> 0,
                   rows |-> AdvisoryRows(records)]
  /\ Returned("discover_and_ingest_storms", given.storm, "body")
  /\ UNCHANGED given

\* the history files a fetch can return
HistoryFiles ==
  {[kind |-> "history", storm |-> "28W", lines |-> ls] :
     ls \in SeqsUpTo(HistoryLines, MaxLines)}

(* ---------------------------------------------------------------------- *)
(* adeck_parse, ap_mean and the forecast points a forecast run inserts    *)
(* ---------------------------------------------------------------------- *)
\* most lines an A-Deck file holds when its lines are told apart by content
MaxDeckLines == 2

\* f"AP{i:02d}" for i up to 99
Digits == <<"0", "1", "2", "3", "4", "5", "6", "7", "8", "9">>
ApCode(i) == "AP" \o Digits[(i \div 10) + 1] \o Digits[(i % 10) + 1]

\* ap_models of filter_ap_members for its default ap_range
ap_min == 1
ap_max == 30
AP_MODELS == {ApCode(i) : i \in ap_min..ap_max}

\* the model codes whose lines vary in every column, and those that occur
\* with one line each
DeckModels == {"AP01", "AP02", "GFSO"}
OtherModels == {"AP00", "AP30", "AP31", "AP1", "AVNO"}

\* forecast hour column, as int() reads it
DeckHours == {-12, 0}

\* latitude and longitude columns: digits (tenths of a degree) and hemisphere
DeckPositions ==
  {<<125, "N", 1453, "E">>, <<999, "N", 1453, "E">>,
   <<125, "S", 1999, "E">>, <<125, "N", 1790, "W">>}

\* Vmax column: a number, or NULL for '', '-', 'N/A' and 'XXX'
DeckWinds == {NULL, 30}

\* A line of an A-Deck file: "blank", "comment" (starts with #), "short"
\* (fewer than 10 columns), "garbled" (date, forecast hour or position does
\* not parse) or "data".
AdeckLines ==
  {[form |-> f, model |-> "", iss |-> 0, fhour |-> 0, pos |-> <<0, "N", 0, "E">>,
    vmax |-> NULL] : f \in {"blank", "comment", "short", "garbled"}}
  \cup {[form |-> "data", model |-> m, iss |-> i, fhour |-> h, pos |-> p, vmax |-> v] :
          m \in DeckModels, i \in 1..MaxIssuance, h \in DeckHours,
          p \in DeckPositions, v \in DeckWinds}
  \cup {[form |-> "data", model |-> m, iss |-> MaxIssuance, fhour |-> 0,
          pos |-> <<125, "N", 1453, "E">>, vmax |-> 30] : m \in OtherModels}

\* AdeckParseService._parse_latlon: signed tenths of a degree (the code
\* divides by 10.0; positions are kept in tenths here)
adeck_parse_latlon(pos) ==
  <<IF pos[2] = "S" THEN -pos[1] ELSE pos[1],
    IF pos[4] = "W" THEN -pos[3] ELSE pos[3]>>

\* AdeckParseService.parse_line: at most one record
adeck_parse_line(l) ==
  IF l.form # "data" THEN <<>>
  ELSE <<[model_code |-> l.model, issuance_time |-> l.iss,
          forecast_hour |-> l.fhour,
          latitude |-> adeck_parse_latlon(l.pos)[1],
          longitude |-> adeck_parse_latlon(l.pos)[2],
          vmax_kt |-> l.vmax]>>

\* AdeckParseService.parse_file: the records in file order.  parse_errors
\* gets an entry only when parse_line raises, which none of its branches
\* does (each conversion catches its own error and returns None).
RECURSIVE adeck_parse_file(_)
adeck_parse_file(lines) ==
  IF lines = <<>> THEN <<>>
  ELSE IF Head(lines).form \in {"blank", "comment"} THEN adeck_parse_file(Tail(lines))
  ELSE adeck_parse_line(Head(lines)) \o adeck_parse_file(Tail(lines))

\* len(self.parse_errors) after parse_file
adeck_parse_errors(lines) == 0

\* filter_ap_members that keeps every record
filter_ap_members_all(forecasts) == forecasts

\* AdeckParseService.filter_ap_members
filter_ap_members(forecasts) ==
  SelectSeq(forecasts, LAMBDA f : f.model_code \in AP_MODELS)

RECURSIVE SumSeq(_)
SumSeq(seq) == IF seq = <<>> THEN 0 ELSE Head(seq) + SumSeq(Tail(seq))

Min(S) == CHOOSE x \in S : \A y \in S : x <= y

\* sorted(S) of a set of integers
RECURSIVE Sorted(_)
Sorted(S) == IF S = {} THEN <<>> ELSE <<Min(S)>> \o Sorted(S \ {Min(S)})

\* a mean is kept exactly, as <<sum, count>>
Mean(seq) == <<SumSeq(seq), Len(seq)>>

\* the arithmetic mean of the longitudes as they are
normalize_longitude_mean_plain(lons) == Mean(lons)

\* APMeanService._normalize_longitude_mean, in tenths of a degree
normalize_longitude_mean(lons) ==
  IF Max(Range(lons)) - Min(Range(lons)) > 1800
  THEN LET adjusted_lons == [i \in 1..Len(lons) |->
                               IF lons[i] < 0 THEN lons[i] + 3600 ELSE lons[i]]
           mean_lon == Mean(adjusted_lons)
       IN IF mean_lon[1] > 1800 * mean_lon[2]
          THEN <<mean_lon[1] - 3600 * mean_lon[2], mean_lon[2]>>
          ELSE mean_lon
  ELSE Mean(lons)

\* APMeanService._compute_mean_point (positions are never None in a parsed
\* record, so the point always exists)
compute_mean_point(members, issuance_time, lead_hour) ==
  LET lats == [i \in 1..Len(members) |-> members[i].latitude]
      lons == [i \in 1..Len(members) |-> members[i].longitude]
      with == SelectSeq(members, LAMBDA m : m.vmax_kt # NULL)
      vmaxs == [i \in 1..Len(with) |-> with[i].vmax_kt]
  IN [issuance_time |-> issuance_time,
      lead_time_hours |-> lead_hour,
      latitude |-> Mean(lats),
      longitude |-> normalize_longitude_mean(lons),
      vmax_kt |-> IF vmaxs = <<>> THEN <<>> ELSE Mean(vmaxs),
      member_count |-> Len(members)]

\* compute_mean_forecast that groups the records of all issuances by lead
compute_mean_forecast_all_issuances(ap_forecasts) ==
  IF ap_forecasts = <<>> THEN <<>>
  ELSE LET latest_issuance == Max({f.issuance_time : f \in Range(ap_forecasts)})
           leads == Sorted({f.forecast_hour : f \in Range(ap_forecasts)})
       IN [k \in 1..Len(leads) |->
             compute_mean_point(
               SelectSeq(ap_forecasts, LAMBDA f : f.forecast_hour = leads[k]),
               latest_issuance, leads[k])]

\* APMeanService.compute_mean_forecast: the points of the latest issuance,
\* one per lead hour, in ascending order of lead
compute_mean_forecast(ap_forecasts) ==
  IF ap_forecasts = <<>> THEN <<>>
  ELSE LET latest_issuance == Max({f.issuance_time : f \in Range(ap_forecasts)})
           leads == Sorted({f.forecast_hour : f \in {g \in Range(ap_forecasts) :
                                                g.issuance_time = latest_issuance}})
       IN [k \in 1..Len(leads) |->
             compute_mean_point(
               SelectSeq(ap_forecasts, LAMBDA f : /\ f.issuance_time = latest_issuance
                                                  /\ f.forecast_hour = leads[k]),
               latest_issuance, leads[k])]

\* update_storm_forecast_task on the fetched A-Deck file given.lines, run
\* alone from the parse to the commit: without AP members the task returns
\* before it deletes; else the storm's points are replaced by the mean
update_storm_forecast_on_file ==
  /\ given.kind = "adeck"
  /\ ~made.done
  /\ UNCHANGED cache
  /\ UNCHANGED queue
  /\ UNCHANGED storm_rows
  /\ status[given.storm] # "absent"
  /\ \E all_forecasts \in {adeck_parse_file(given.lines)} :
       \E mean_forecast \in {compute_mean_forecast(filter_ap_members(all_forecasts))} :
         /\ made' = [done |-> TRUE, records |-> all_forecasts,
                     errors |-> adeck_parse_errors(given.lines),
                     rows |-> mean_forecast]
         /\ IF filter_ap_members(all_forecasts) = <<>>
            THEN /\ Returned("update_storm_forecast_task", given.storm, "no_ap_members")
                 /\ UNCHANGED fpoints
            ELSE /\ Returned("update_storm_forecast_task", given.storm, "success")
                 /\ fpoints' = (fpoints \ PointsOf(given.storm)) \cup
                      {[storm |-> given.storm, iss |-> p.issuance_time,
                        lead |-> p.lead_time_hours, by |-> "w1"] :
                         p \in Range(mean_forecast)}
  /\ UNCHANGED <<zones, tx, given>>
  /\ UNCHANGED stormVars

\* the A-Deck files a fetch can return
AdeckFiles ==
  {[kind |-> "adeck", storm |-> "28W", lines |-> ls] :
     ls \in SeqsUpTo(AdeckLines, MaxDeckLines)}

(* ---------------------------------------------------------------------- *)
(* arrival windows and the zones a zone run inserts                       *)
(* ---------------------------------------------------------------------- *)
\* GaleArrivalService.classify_arrival_window
classify_arrival_window(tofi, current_time) ==
  LET hours_until == tofi - current_time
  IN IF hours_until <= 24 THEN "warning"
     ELSE IF hours_until <= 48 THEN "watch"
     ELSE "none"

\* PolygonBuilder.split_by_threshold, on a set of arrival times
split_by_threshold(tofi_data, current_time) ==
  [warning |-> {tofi \in tofi_data : tofi - current_time <= 24},
   watch |-> {tofi \in tofi_data : /\ ~(tofi - current_time <= 24)
                                    /\ tofi - current_time <= 48}]

\* The forecast a zone run reads was issued given.age hours before now and
\* has a point for each lead hour of given.leads; valid_at_utc of a point is
\* its issuance time plus its lead.
ForecastAges == {0, 6}
ForecastLeads == {0, 24, 30, 48, 60}
valid_at_utc(issued_at, lead) == issued_at + lead

\* build_zone_polygons is imported by tasks_zones but defined nowhere in the
\* repository: it returns a list of polygons, possibly empty, or raises
BuildOutcomes == {"raise", "empty", "one"}
build_zone_polygons(outcome) == IF outcome = "one" THEN <<"polygon">> ELSE <<>>

\* generate_watch_zones with valid_to = now
generate_watch_zones_unwindowed(valid_ats, outcome, at) ==
  LET watch_points == {v \in valid_ats : 24 <= v - at /\ v - at <= 48}
      watch_polygons == build_zone_polygons(outcome)
  IN [points |-> watch_points,
      zones |-> IF watch_points = {} \/ outcome = "raise" THEN <<>>
                ELSE [i \in 1..Len(watch_polygons) |->
                        [type |-> "watch", valid_from |-> at, valid_to |-> at]]]

\* generate_watch_zones: the points selected and the zones returned (none
\* when no point is selected or build_zone_polygons raises)
generate_watch_zones(valid_ats, outcome, at) ==
  LET watch_points == {v \in valid_ats : 24 <= v - at /\ v - at <= 48}
      watch_polygons == build_zone_polygons(outcome)
  IN [points |-> watch_points,
      zones |-> IF watch_points = {} \/ outcome = "raise" THEN <<>>
                ELSE [i \in 1..Len(watch_polygons) |->
                        [type |-> "watch", valid_from |-> at, valid_to |-> at + 48]]]

\* generate_warning_zones
generate_warning_zones(valid_ats, outcome, at) ==
  LET warning_points == {v \in valid_ats : v - at <= 24}
      warning_polygons == build_zone_polygons(outcome)
  IN [points |-> warning_points,
      zones |-> IF warning_points = {} \/ outcome = "raise" THEN <<>>
                ELSE [i \in 1..Len(warning_polygons) |->
                        [type |-> "warning", valid_from |-> at, valid_to |-> at + 24]]]

\* lines 47-63 of tasks_zones: one Zone per generated zone
ZoneRows(zone_data) ==
  [i \in 1..Len(zone_data) |->
     [zone_type |-> zone_data[i].type,
      valid_from_utc |-> zone_data[i].valid_from,
      valid_to_utc |-> zone_data[i].valid_to]]

\* regenerate_storm_zones_task on the forecast given, run alone from the
\* read of the forecast to the commit: the storm's zones are replaced by the
\* zones generated; made.records keeps the points each generator selected
regenerate_storm_zones_on_forecast ==
  /\ given.kind = "forecast"
  /\ ~made.done
  /\ UNCHANGED cache
  /\ UNCHANGED queue
  /\ UNCHANGED storm_rows
  /\ status[given.storm] # "absent"
  /\ PointsOf(given.storm) # {}
  /\ LET valid_ats == {valid_at_utc(now - given.age, p.lead) : p \in PointsOf(given.storm)}
         watch == generate_watch_zones(valid_ats, given.watch, now)
         warning == generate_warning_zones(valid_ats, given.warning, now)
     IN /\ made' = [done |-> TRUE,
                    records |-> <<[type |-> "watch", points |-> watch.points],
                                  [type |-> "warning", points |-> warning.points]>>,
                    errors |-> 0,
                    rows |-> ZoneRows(watch.zones \o warning.zones)]
        /\ zones' = {z \in zones : z.storm # given.storm} \cup
                      (IF watch.zones \o warning.zones = <<>> THEN {}
                       ELSE {[storm |-> given.storm, iss |-> 1, by |-> "w1"]})
  /\ Returned("regenerate_storm_zones_task", given.storm, "success")
  /\ UNCHANGED <<fpoints, tx, given>>
  /\ UNCHANGED stormVars

\* the forecasts a zone run can find
Forecasts ==
  {[kind |-> "forecast", storm |-> "28W", age |-> a, leads |-> ls, watch |-> b1,
    warning |-> b2] :
     a \in ForecastAges, ls \in (SUBSET ForecastLeads) \ {{}},
     b1 \in BuildOutcomes, b2 \in BuildOutcomes}

(* ---------------------------------------------------------------------- *)
(* cimss_2dwind_fetch and the radii rows ingest_radii_for_storm writes    *)
(* ---------------------------------------------------------------------- *)
\* most lines a 2dwind file holds when its lines are told apart by content
MaxWindLines == 2

Quadrants == {"NE", "SE", "SW", "NW"}

\* date and time of a 2dwind line (as an hour) and the values of its radius
\* columns, in nautical miles
WindTimes == {0, 2, 24}
RawRadii == {0, 20, 40}

\* A line of a 2dwind file: "blank", "comment" (starts with # or Date),
\* "short" (fewer than 18 columns without the pipes), "garbled" (unknown
\* month or unparsable date) or "data"; a data line carries its time and,
\* per quadrant, its R34, R50 and R64 columns.  The columns of the north-east
\* quadrant vary, the other quadrants hold 40, 20 and 0.
WindLines ==
  {[form |-> f, time |-> 0, radii |-> [q \in Quadrants |-> <<0, 0, 0>>]] :
     f \in {"blank", "comment", "short", "garbled"}}
  \cup {[form |-> "data", time |-> t,
         radii |-> [q \in Quadrants |-> IF q = "NE" THEN <<a, b, c>> ELSE <<40, 20, 0>>]] :
          t \in WindTimes, a \in RawRadii, b \in RawRadii, c \in RawRadii}

\* CIMSS2dWindService._parse_radius
parse_radius(value) == IF value > 0 THEN value ELSE NULL

\* CIMSS2dWindService.parse_2dwind: one record per data line, in file order
RECURSIVE parse_2dwind(_)
parse_2dwind(lines) ==
  IF lines = <<>> THEN <<>>
  ELSE IF Head(lines).form # "data" THEN parse_2dwind(Tail(lines))
  ELSE <<[timestamp |-> Head(lines).time,
          radii |-> [q \in Quadrants |->
                       [r34_nm |-> parse_radius(Head(lines).radii[q][1]),
                        r50_nm |-> parse_radius(Head(lines).radii[q][2]),
                        r64_nm |-> parse_radius(Head(lines).radii[q][3])]]]>>
       \o parse_2dwind(Tail(lines))

Abs(x) == IF x < 0 THEN -x ELSE x

\* the closest advisory, however far away
MatchingAdvisory_unbounded(timestamp, issued) ==
  IF issued = {} THEN <<>>
  ELSE <<CHOOSE a \in issued : \A b \in issued : Abs(a - timestamp) <= Abs(b - timestamp)>>

\* lines 131-146 of tasks_ingest: the advisory issued at the timestamp, else
\* the closest one issued within three hours of it, as a sequence of at
\* most one issuance time
MatchingAdvisory(timestamp, issued) ==
  IF timestamp \in issued THEN <<timestamp>>
  ELSE LET near == {a \in issued : Abs(a - timestamp) <= 3}
       IN IF near = {} THEN <<>>
          ELSE <<CHOOSE a \in near : \A b \in near : Abs(a - timestamp) <= Abs(b - timestamp)>>

\* lines 151-172: the rows of the advisory are updated or added, one per
\* quadrant
UpsertRadii(rows, advisory, radii) ==
  {r \in rows : r.advisory # advisory} \cup
  {[advisory |-> advisory, quadrant |-> q, r34_nm |-> radii[q].r34_nm,
    r50_nm |-> radii[q].r50_nm, r64_nm |-> radii[q].r64_nm] : q \in Quadrants}

\* lines 131-174: the loop over the parsed records from record i on
RECURSIVE RadiiLoop(_, _, _, _)
RadiiLoop(rows, radii_records, issued, i) ==
  IF i > Len(radii_records) THEN rows
  ELSE LET advisory == MatchingAdvisory(radii_records[i].timestamp, issued)
       IN RadiiLoop(IF advisory = <<>> THEN rows
                    ELSE UpsertRadii(rows, advisory[1], radii_records[i].radii),
                    radii_records, issued, i + 1)

\* ingest_radii_for_storm on the fetched 2dwind file given.lines: made.rows
\* is the radii table of the storm after the commit (empty before the run)
ingest_radii_for_storm ==
  /\ given.kind = "2dwind"
  /\ ~made.done
  /\ UNCHANGED cache
  /\ UNCHANGED queue
  /\ UNCHANGED storm_rows
  /\ status[given.storm] # "absent"
  /\ \E radii_records \in {parse_2dwind(given.lines)} :
       made' = [done |-> TRUE, records |-> radii_records, errors |-> 0,
                rows |-> RadiiLoop({}, radii_records, advisories[given.storm], 1)]
  /\ Returned("ingest_radii_for_storm", given.storm,
              IF parse_2dwind(given.lines) = <<>> THEN "no_data" ELSE "success")
  /\ UNCHANGED <<given>>
  /\ UNCHANGED fcVars
  /\ UNCHANGED stormVars

\* the 2dwind files a fetch can return
WindFiles ==
  {[kind |-> "2dwind", storm |-> "28W", lines |-> ls] :
     ls \in SeqsUpTo(WindLines, MaxWindLines)}

(* ---------------------------------------------------------------------- *)
(* gale_arrival: time of first intersection                               *)
(* ---------------------------------------------------------------------- *)
\* most points of a forecast track handed to calculate_tofi
MaxTrack == 3

\* the wind data of a forecast point: its radii (NULL for none, else r34 per
\* quadrant in nautical miles) and its vmax_kt (NULL for none)
NoRadii == [q \in Quadrants |-> NULL]
WindData ==
  {[radii |-> NoRadii, vmax_kt |-> NULL],
   [radii |-> NoRadii, vmax_kt |-> 30],
   [radii |-> NoRadii, vmax_kt |-> 40],
   [radii |-> [q \in Quadrants |-> 0], vmax_kt |-> 40],
   [radii |-> [q \in Quadrants |-> IF q = "SE" THEN 50 ELSE 20], vmax_kt |-> 30]}

\* valid_at of a forecast point, in hours
TrackTimes == {6, 12}

\* distance from the centre of a forecast point to the coast segment, in
\* 1/100000 of a degree
CoastDistances == {40000, 60000}

TrackPoints ==
  {[valid_at |-> v, radii |-> w.radii, vmax_kt |-> w.vmax_kt, distance |-> d] :
     v \in TrackTimes, w \in WindData, d \in CoastDistances}

\* GaleArrivalService._get_wind_radius for the 34 kt threshold, in tenths of
\* a nautical mile (NULL for None); 'not radii' holds for a missing and for
\* an empty radii dict
get_wind_radius(forecast_point) ==
  IF forecast_point.radii = NoRadii
  THEN IF forecast_point.vmax_kt = NULL \/ forecast_point.vmax_kt = 0
          \/ forecast_point.vmax_kt < 34
       THEN NULL
       ELSE forecast_point.vmax_kt * 8
  ELSE LET present == {forecast_point.radii[q] : q \in Quadrants} \ {NULL}
           max_radius == Max(present \cup {0})
       IN IF max_radius > 0 THEN max_radius * 10 ELSE NULL

\* wind_circle.intersects(coastline): the radius in degrees (0.0167 per
\* nautical mile) reaches the segment
intersects(radii_nm, distance) == radii_nm * 167 >= distance

\* calculate_tofi that stops at the first intersecting point of the track
RECURSIVE tofi_loop_first(_, _, _)
tofi_loop_first(forecast_track, idx, found) ==
  IF idx > Len(forecast_track) \/ found # <<>> THEN found
  ELSE LET fpoint == forecast_track[idx]
           radii_nm == get_wind_radius(fpoint)
       IN tofi_loop_first(forecast_track, idx + 1,
            IF radii_nm # NULL /\ intersects(radii_nm, fpoint.distance)
            THEN <<[tofi_utc |-> fpoint.valid_at, forecast_point_index |-> idx]>>
            ELSE found)

\* lines 40-63 of calculate_tofi: the loop over the track from point idx on;
\* found is <<>> while min_tofi is None
RECURSIVE tofi_loop(_, _, _)
tofi_loop(forecast_track, idx, found) ==
  IF idx > Len(forecast_track) THEN found
  ELSE LET fpoint == forecast_track[idx]
           radii_nm == get_wind_radius(fpoint)
       IN tofi_loop(forecast_track, idx + 1,
            IF /\ radii_nm # NULL
               /\ intersects(radii_nm, fpoint.distance)
               /\ (found = <<>> \/ fpoint.valid_at < found[1].tofi_utc)
            THEN <<[tofi_utc |-> fpoint.valid_at, forecast_point_index |-> idx]>>
            ELSE found)

\* GaleArrivalService.calculate_tofi: <<>> for None
calculate_tofi(forecast_track) == tofi_loop(forecast_track, 1, <<>>)

\* calculate_tofi applied to the track given
calculate_tofi_on_track ==
  /\ given.kind = "track"
  /\ ~made.done
  /\ UNCHANGED cache
  /\ UNCHANGED queue
  /\ UNCHANGED storm_rows
  /\ made' = [done |-> TRUE, records |-> <<>>, errors |-> 0,
              rows |-> calculate_tofi(given.track)]
  /\ UNCHANGED <<given, ev>>
  /\ UNCHANGED fcVars
  /\ UNCHANGED stormVars

Tracks ==
  {[kind |-> "track", storm |-> "28W", track |-> tr] :
     tr \in SeqsUpTo(TrackPoints, MaxTrack)}

\* forward speeds in knots: the argument (NULL for None) and the point's
\* motion_speed_kt (NULL when the key is missing)
SpeedArgs == {NULL, 0, 10, 15, 30, 45}
PointSpeeds == {NULL, 0, 20}

\* GaleArrivalService.adjust_tofi_for_motion; times in minutes, so that
\* (1 - speed / 15) * 3 h is 12 * (15 - speed) minutes
adjust_tofi_for_motion(tofi, motion_speed_kt, forward_speed_kt) ==
  LET speed == IF forward_speed_kt = NULL \/ forward_speed_kt = 0
               THEN (IF motion_speed_kt = NULL THEN 10 ELSE motion_speed_kt)
               ELSE forward_speed_kt
      adjustment_minutes == 12 * (15 - speed)
  IN tofi + adjustment_minutes

\* adjust_tofi_for_motion applied to the TOFI given
adjust_tofi_on_motion ==
  /\ given.kind = "motion"
  /\ ~made.done
  /\ UNCHANGED cache
  /\ UNCHANGED queue
  /\ UNCHANGED storm_rows
  /\ made' = [done |-> TRUE, records |-> <<>>, errors |-> 0,
              rows |-> <<adjust_tofi_for_motion(given.tofi, given.motion_speed_kt,
                                                given.forward_speed_kt)>>]
  /\ UNCHANGED <<given, ev>>
  /\ UNCHANGED fcVars
  /\ UNCHANGED stormVars

Motions ==
  {[kind |-> "motion", storm |-> "28W", tofi |-> 60 * t, motion_speed_kt |-> m,
    forward_speed_kt |-> f] :
     t \in TrackTimes, m \in PointSpeeds, f \in SpeedArgs}

\* most records of an ensemble handed to compute_mean_forecast
MaxMembers == 3

\* longitudes of ensemble members, in tenths of a degree
MemberLons == {1795, -1795, -1800, 100}

\* the records of AP members: issuance, forecast hour and longitude vary
MemberRecords ==
  {[model_code |-> "AP01", issuance_time |-> i, forecast_hour |-> h,
    latitude |-> 125, longitude |-> l, vmax_kt |-> 30] :
     i \in 1..MaxIssuance, h \in LeadHours, l \in MemberLons}

\* compute_mean_forecast applied to the ensemble given
compute_mean_forecast_on_members ==
  /\ given.kind = "members"
  /\ ~made.done
  /\ UNCHANGED cache
  /\ UNCHANGED queue
  /\ UNCHANGED storm_rows
  /\ made' = [done |-> TRUE, records |-> given.members, errors |-> 0,
              rows |-> compute_mean_forecast(given.members)]
  /\ UNCHANGED <<given, ev>>
  /\ UNCHANGED fcVars
  /\ UNCHANGED stormVars

Ensembles ==
  {[kind |-> "members", storm |-> "28W", members |-> ms] :
     ms \in SeqsUpTo(MemberRecords, MaxMembers)}

\* the advisories of the storm stored before the cycle
StoredAdvisories == {{}, {0}, {0, 24}, {0, 3}}

\* the inputs of the data path
Inputs == HistoryFiles \cup AdeckFiles \cup Forecasts \cup WindFiles \cup Tracks \cup Motions
            \cup Ensembles

\* storm 28W is stored and active; one input has been fetched and is about
\* to be processed
InitData ==
  /\ given \in Inputs
  /\ now = Instants[3]
  /\ tickIdx = 3
  /\ status = [s \in Storms |-> IF s = "28W" THEN "active" ELSE "absent"]
  /\ \E A \in (IF given.kind \in {"history", "2dwind"} THEN StoredAdvisories ELSE {{0}}) :
       advisories = [s \in Storms |-> IF s = "28W" THEN A ELSE {}]
  /\ last_seen = [s \in Storms |-> IF s = "28W" THEN Instants[2] ELSE NULL]
  /\ last_status_change_at = [s \in Storms |-> NULL]
  /\ ev = Event("discover_and_ingest_storms", {}, {}, {}, {})
  /\ zones = {}
  /\ tx = [w \in Workers |-> IdleTx]
  /\ fpoints = IF given.kind = "forecast"
               THEN {[storm |-> given.storm, iss |-> 1, lead |-> h, by |-> "w1"] :
                       h \in given.leads}
               ELSE {}
  /\ made = NotMade
  /\ cache = NoValidators
  /\ queue = NoQueue
  /\ storm_rows = NoRows

NextData ==
  \/ ingest_history_file
  \/ update_storm_forecast_on_file
  \/ regenerate_storm_zones_on_forecast
  \/ ingest_radii_for_storm
  \/ calculate_tofi_on_track
  \/ adjust_tofi_on_motion
  \/ compute_mean_forecast_on_members

SpecData == InitData /\ [][NextData]_vars

\* the lines of a file that are neither blank nor comment or header lines
DataLines(lines) == SelectSeq(lines, LAMBDA l : l.form \notin {"blank", "header", "comment"})

\* C23: when more than half of the data lines of a fetched history file fail
\* to parse (also when none parses), the ingest cycle leaves the advisories
\* the storm had before unchanged.
C23_MostlyUnparsedKeepsAdvisories ==
  [][(/\ given.kind = "history"
      /\ ~made.done
      /\ made'.done
      /\ 2 * (Len(DataLines(given.lines)) - Len(made'.records))
           > Len(DataLines(given.lines)))
     => advisories'[given.storm] = advisories[given.storm]]_vars

\* C28: every advisory an ingest cycle persists has its latitude within
\* [-90, 90], its longitude within [-180, 180] and a Vmax of at least 0.
C28_AdvisoriesInRange ==
  (given.kind = "history" /\ made.done)
    => \A i \in 1..Len(made.rows) :
         /\ made.rows[i].lat \in -90..90
         /\ made.rows[i].lon \in -180..180
         /\ made.rows[i].vmax_kt >= 0

\* C29: after an ingest cycle no two advisories of the storm have the same
\* issuance time.
C29_OneAdvisoryPerIssuance ==
  (given.kind = "history" /\ made.done)
    => \A i, j \in 1..Len(made.rows) :
         made.rows[i].issued_at = made.rows[j].issued_at => i = j

\* C22: parse_file of the history parser and of the A-Deck parser returns
\* the records of all well-formed data lines in file order and records one
\* parse error for every other data line: records + errors = data lines.
C22_EveryDataLineAccounted ==
  (given.kind \in {"history", "adeck"} /\ made.done)
    => /\ given.kind = "history" =>
            made.records = adt_parse_file(SelectSeq(given.lines, LAMBDA l :
                                             adt_parse_line(l) # <<>>))
       /\ given.kind = "adeck" =>
            made.records = adeck_parse_file(SelectSeq(given.lines, LAMBDA l :
                                               adeck_parse_line(l) # <<>>))
       /\ Len(made.records) + made.errors = Len(DataLines(given.lines))

\* the AP members with a line for the lead hour of a persisted point
Contributing(p) ==
  {f.model_code : f \in {g \in Range(filter_ap_members(made.records)) :
                           /\ g.issuance_time = p.issuance_time
                           /\ g.forecast_hour = p.lead_time_hours}}

\* C26: every persisted forecast point has a member_count between 1 and 30
\* that equals the number of distinct AP members contributing to its lead.
C26_MemberCountIsDistinctMembers ==
  (given.kind = "adeck" /\ made.done)
    => \A i \in 1..Len(made.rows) :
         /\ made.rows[i].member_count \in 1..30
         /\ made.rows[i].member_count = Cardinality(Contributing(made.rows[i]))

\* C27: every forecast point persisted from an A-Deck file has its latitude
\* within [-90, 90], its longitude within [-180, 180] and lead_hours >= 0.
C27_ForecastPointsInRange ==
  (given.kind = "adeck" /\ made.done)
    => \A i \in 1..Len(made.rows) :
         LET p == made.rows[i]
         IN /\ -900 * p.latitude[2] <= p.latitude[1]
            /\ p.latitude[1] <= 900 * p.latitude[2]
            /\ -1800 * p.longitude[2] <= p.longitude[1]
            /\ p.longitude[1] <= 1800 * p.longitude[2]
            /\ p.lead_time_hours >= 0

\* C24: hours_until = TOFI - now falls in exactly one window (at most 24 h
\* warning only, above 24 h up to 48 h watch only, above 48 h neither;
\* exactly 24 h is a warning, not a watch), and classify_arrival_window,
\* split_by_threshold and the point selection of the zone task agree on it.
C24_WindowsPartition ==
  (given.kind = "forecast" /\ made.done)
    => LET valid_ats == {valid_at_utc(now - given.age, l) : l \in given.leads}
       IN \A v \in valid_ats :
            LET hours_until == v - now
                warning == hours_until <= 24
                watch == 24 < hours_until /\ hours_until <= 48
            IN /\ classify_arrival_window(v, now) = "warning" <=> warning
               /\ classify_arrival_window(v, now) = "watch" <=> watch
               /\ v \in split_by_threshold(valid_ats, now).warning <=> warning
               /\ v \in split_by_threshold(valid_ats, now).watch <=> watch
               /\ \A i \in 1..Len(made.records) :
                    /\ made.records[i].type = "warning" =>
                         (v \in made.records[i].points <=> warning)
                    /\ made.records[i].type = "watch" =>
                         (v \in made.records[i].points <=> watch)

\* C25: every zone the zone task persists has valid_to later than
\* valid_from: exactly 24 h later for a warning, 48 h later for a watch.
C25_ZoneValidity ==
  (given.kind = "forecast" /\ made.done)
    => \A i \in 1..Len(made.rows) :
         /\ made.rows[i].valid_to_utc > made.rows[i].valid_from_utc
         /\ made.rows[i].zone_type = "warning" =>
              made.rows[i].valid_to_utc - made.rows[i].valid_from_utc = 24
         /\ made.rows[i].zone_type = "watch" =>
              made.rows[i].valid_to_utc - made.rows[i].valid_from_utc = 48

\* a zone run has persisted a watch and a warning zone
C25_Witness ==
  /\ given.kind = "forecast"
  /\ made.done
  /\ \E i, j \in 1..Len(made.rows) :
       made.rows[i].zone_type = "watch" /\ made.rows[j].zone_type = "warning"
  /\ zones # {}

\* C30: every radii row persisted with all three thresholds has
\* r64 <= r50 <= r34.
C30_RadiiNested ==
  (given.kind = "2dwind" /\ made.done)
    => \A r \in made.rows :
         (r.r34_nm # NULL /\ r.r50_nm # NULL /\ r.r64_nm # NULL)
           => (r.r64_nm <= r.r50_nm /\ r.r50_nm <= r.r34_nm)

Reaching ==
  {i \in 1..Len(given.track) :
     /\ get_wind_radius(given.track[i]) # NULL
     /\ intersects(get_wind_radius(given.track[i]), given.track[i].distance)}

\* C32: for a track in any order calculate_tofi returns the least valid_at
\* of the points whose 34 kt wind disc reaches the segment, and no TOFI
\* exactly when no point's disc reaches it; a point without radii and with
\* vmax below 34 kt has no disc.
C32_TofiIsEarliestReaching ==
  (given.kind = "track" /\ made.done)
    => /\ made.rows = <<>> <=> Reaching = {}
       /\ made.rows # <<>> =>
            made.rows[1].tofi_utc = Min({given.track[i].valid_at : i \in Reaching})
       /\ \A i \in 1..Len(given.track) :
            (given.track[i].radii = NoRadii /\ given.track[i].vmax_kt < 34)
              => i \notin Reaching

\* the track holds a later reaching point before an earlier one, and a point
\* whose disc does not reach the segment
C32_Witness ==
  /\ given.kind = "track"
  /\ made.done
  /\ made.rows # <<>>
  /\ made.rows[1].forecast_point_index > 1
  /\ 1 \in Reaching
  /\ \E i \in 1..Len(given.track) : i \notin Reaching

\* C33: the shift adjust_tofi_for_motion applies to a TOFI lies within
\* [-3 h, +3 h] for every forward speed, a missing or zero speed included.
C33_ShiftWithinThreeHours ==
  (given.kind = "motion" /\ made.done)
    => /\ made.rows[1] - given.tofi >= -180
       /\ made.rows[1] - given.tofi <= 180

(* ---------------------------------------------------------------------- *)
(* Ensemble members and the mean forecast                                 *)
(* ---------------------------------------------------------------------- *)
\* the 30 codes AP01 ... AP30
ThirtyCodes ==
  {"AP01", "AP02", "AP03", "AP04", "AP05", "AP06", "AP07", "AP08", "AP09", "AP10",
   "AP11", "AP12", "AP13", "AP14", "AP15", "AP16", "AP17", "AP18", "AP19", "AP20",
   "AP21", "AP22", "AP23", "AP24", "AP25", "AP26", "AP27", "AP28", "AP29", "AP30"}

\* C34: filter_ap_members keeps a parsed record if and only if its model
\* code is one of AP01 ... AP30, and a record with any other model code
\* contributes to no persisted forecast point.
C34_OnlyThirtyMembers ==
  (given.kind = "adeck" /\ made.done)
    => /\ filter_ap_members(made.records)
            = SelectSeq(made.records, LAMBDA f : f.model_code \in ThirtyCodes)
       /\ made.rows = compute_mean_forecast(
                        SelectSeq(made.records, LAMBDA f : f.model_code \in ThirtyCodes))

\* a file with a line of AP30 and a line of a code outside the ensemble has
\* been made into one forecast point of one member
C34_Witness ==
  /\ given.kind = "adeck"
  /\ made.done
  /\ \E i, j \in 1..Len(made.records) :
       /\ made.records[i].model_code = "AP30"
       /\ made.records[j].model_code \in {"AP00", "AP31", "AP1", "AVNO"}
  /\ Len(made.rows) = 1
  /\ made.rows[1].member_count = 1
  /\ fpoints # {}

\* the AP records a mean forecast was computed from
ApRecords ==
  IF given.kind = "members" THEN made.records ELSE filter_ap_members(made.records)

\* the records of the most recent issuance among them
LatestRecords ==
  SelectSeq(ApRecords, LAMBDA f :
              \A g \in Range(ApRecords) : g.issuance_time <= f.issuance_time)

\* C35: compute_mean_forecast outputs points only for the most recent
\* issuance among the AP records, exactly one per distinct forecast hour of
\* that issuance, in increasing order of lead; records of older issuances do
\* not influence the output.
C35_LatestIssuanceOnly ==
  (given.kind \in {"members", "adeck"} /\ made.done)
    => /\ \A i \in 1..Len(made.rows) :
            \E f \in Range(LatestRecords) :
              /\ made.rows[i].issuance_time = f.issuance_time
              /\ made.rows[i].lead_time_hours = f.forecast_hour
       /\ \A f \in Range(LatestRecords) :
            \E i \in 1..Len(made.rows) : made.rows[i].lead_time_hours = f.forecast_hour
       /\ \A i, j \in 1..Len(made.rows) :
            i < j => made.rows[i].lead_time_hours < made.rows[j].lead_time_hours
       /\ made.rows = compute_mean_forecast(LatestRecords)

\* an ensemble with a record of an older issuance and two lead hours of the
\* latest issuance, the later lead first, has been made into two points
C35_Witness ==
  /\ given.kind = "members"
  /\ made.done
  /\ Len(made.records) = 3
  /\ made.records[1].issuance_time < made.records[2].issuance_time
  /\ made.records[3].issuance_time = made.records[2].issuance_time
  /\ made.records[2].forecast_hour > made.records[3].forecast_hour
  /\ Len(made.rows) = 2

\* the longitudes of the members of the point made.rows[i]
LonsOf(i) ==
  LET members == SelectSeq(LatestRecords, LAMBDA f :
                             f.forecast_hour = made.rows[i].lead_time_hours)
  IN [k \in 1..Len(members) |-> members[k].longitude]

\* the mean of the longitudes after rotating the negative ones into [0, 360),
\* brought back into (-180, 180]
RotatedMean(lons) ==
  LET rotated == [k \in 1..Len(lons) |-> IF lons[k] < 0 THEN lons[k] + 3600 ELSE lons[k]]
  IN IF SumSeq(rotated) > 1800 * Len(lons)
     THEN <<SumSeq(rotated) - 3600 * Len(lons), Len(lons)>>
     ELSE <<SumSeq(rotated), Len(lons)>>

\* C36 as stated: the mean longitude of an ensemble always lies in
\* (-180, 180] and, when the members' longitudes span more than 180 degrees,
\* is the mean taken after rotating negative longitudes into [0, 360).
C36_MeanLongitudeHalfOpen ==
  (given.kind = "members" /\ made.done)
    => \A i \in 1..Len(made.rows) :
         /\ made.rows[i].longitude[1] > -1800 * made.rows[i].longitude[2]
         /\ made.rows[i].longitude[1] <= 1800 * made.rows[i].longitude[2]
         /\ Max(Range(LonsOf(i))) - Min(Range(LonsOf(i))) > 1800
              => made.rows[i].longitude = RotatedMean(LonsOf(i))

\* C36, amended: the mean longitude of an ensemble lies in [-180, 180]; when
\* the members' longitudes span more than 180 degrees it lies in (-180, 180]
\* and is the mean taken after rotating negative longitudes into [0, 360),
\* so that members at 179.5 and -179.5 have the mean 180.
C36_MeanLongitudeClosed ==
  (given.kind = "members" /\ made.done)
    => \A i \in 1..Len(made.rows) :
         /\ made.rows[i].longitude[1] >= -1800 * made.rows[i].longitude[2]
         /\ made.rows[i].longitude[1] <= 1800 * made.rows[i].longitude[2]
         /\ Max(Range(LonsOf(i))) - Min(Range(LonsOf(i))) > 1800
              => /\ made.rows[i].longitude = RotatedMean(LonsOf(i))
                 /\ made.rows[i].longitude[1] > -1800 * made.rows[i].longitude[2]
         /\ LonsOf(i) = <<1795, -1795>> => made.rows[i].longitude = <<3600, 2>>

\* members at 179.5 and -179.5 have been made into a point at 180
C36_Witness ==
  /\ given.kind = "members"
  /\ made.done
  /\ \E i \in 1..Len(made.rows) :
       /\ LonsOf(i) = <<1795, -1795>>
       /\ made.rows[i].longitude = <<3600, 2>>

(* ---------------------------------------------------------------------- *)
(* Radii and their advisories                                             *)
(* ---------------------------------------------------------------------- *)
\* the advisories a radii record issued at t belongs to: the one issued at t,
\* else those closest to t among the ones at most 3 hours away
Targets(t) ==
  LET issued == advisories[given.storm]
      near == {a \in issued : a - t <= 3 /\ t - a <= 3}
  IN IF t \in issued THEN {t}
     ELSE {a \in near : \A b \in near : Abs(a - t) <= Abs(b - t)}

\* C37: ingest_radii_for_storm attaches each parsed radii record to the
\* advisory with the same timestamp if there is one, otherwise to the
\* closest advisory among those at most 3 hours away, and writes nothing for
\* a record without an advisory within 3 hours; afterwards there is at most
\* one Radii row per advisory and quadrant.
C37_RadiiAttachedToNearestAdvisory ==
  (given.kind = "2dwind" /\ made.done)
    => /\ \A r \in made.rows :
            \E i \in 1..Len(made.records) :
              /\ r.advisory \in Targets(made.records[i].timestamp)
              /\ r.r34_nm = made.records[i].radii[r.quadrant].r34_nm
              /\ r.r50_nm = made.records[i].radii[r.quadrant].r50_nm
              /\ r.r64_nm = made.records[i].radii[r.quadrant].r64_nm
       /\ \A i \in 1..Len(made.records) :
            Targets(made.records[i].timestamp) # {} =>
              \A q \in Quadrants :
                \E r \in made.rows :
                  r.advisory \in Targets(made.records[i].timestamp) /\ r.quadrant = q
       /\ \A r1, r2 \in made.rows :
            (r1.advisory = r2.advisory /\ r1.quadrant = r2.quadrant) => r1 = r2

\* of two records one was attached to the closer of two advisories near it
\* and the other, more than 3 hours from every advisory, was dropped
C37_Witness ==
  /\ given.kind = "2dwind"
  /\ made.done
  /\ advisories[given.storm] = {0, 3}
  /\ Len(made.records) = 2
  /\ made.records[1].timestamp = 2
  /\ made.records[2].timestamp = 24
  /\ {r.advisory : r \in made.rows} = {3}
  /\ Cardinality(made.rows) = 4

(* ---------------------------------------------------------------------- *)
(* Conditional requests: the validators the fetch services keep           *)
(* ---------------------------------------------------------------------- *)
\* most versions of the upstream documents
MaxVersions == 2

\* the upstream documents change
Publish ==
  /\ tickIdx < MaxVersions
  /\ Tick

\* fetch_history_file with its cache: a request that carries the validator of
\* the current version is answered 304 and the fetch returns None; otherwise
\* the fetch fails (None) or gets a 200, after which the cycle ingests the
\* body or fails in the parse or the inserts
CachedFetched(s) ==
  IF cache.history[s] = tickIdx
  THEN {[kind |-> "none", lines |-> {}]}
  ELSE Fetched(s, TRUE)

\* fetch_history_file line 60: the cache entry of the URL is written as soon
\* as a 200 response has arrived, before the body is returned
history_cache_after(discovered, fetched) ==
  [s \in Storms |->
     IF s \in discovered /\ fetched[s].kind \in {"body", "raise"}
     THEN tickIdx ELSE cache.history[s]]

\* one run of discover_and_ingest_storms with the validators of the index
\* page and of the history files.  index: what the request for the index page
\* came to ("304", "error" or "200"); discover_storms stores the validator of
\* a 200 response (lines 46-47) before it parses the page.  ev keeps what the
\* iteration of one of the storms came to.
discover_and_ingest_cached ==
  \E index \in (IF cache.index = tickIdx THEN {"304"} ELSE {"error", "200"}) :
    \E discovered \in (IF index = "200" THEN SUBSET Storms ELSE {{}}) :
      \E q \in Perms(discovered) :
        \E fetched \in [discovered -> UNION {CachedFetched(s) : s \in Storms}] :
          /\ \A s \in discovered : fetched[s] \in CachedFetched(s)
          /\ DiscoverRun(q, fetched)
          /\ cache' = [cache EXCEPT
                         !.index = IF index = "200" THEN tickIdx ELSE @,
                         !.history = history_cache_after(discovered, fetched)]
          /\ IF discovered = {}
             THEN Returned("discover_and_ingest_storms", "", "no_storms")
             ELSE \E s \in discovered :
                    Returned("discover_and_ingest_storms", s, fetched[s].kind)
          /\ UNCHANGED dataVars
          /\ UNCHANGED queue
          /\ UNCHANGED storm_rows

\* fetch_adeck with its cache, at the start of update_storm_forecast_task: a
\* request that carries the validator of the current version is answered 304;
\* the cache entry is written as soon as a 200 response has arrived
forecast_begin_cached(w, s) ==
  \E adeck_result \in (IF cache.adeck[s] = tickIdx THEN {"none"} ELSE AdeckResults) :
    /\ forecast_fetched(w, s, adeck_result)
    /\ UNCHANGED queue
    /\ UNCHANGED storm_rows
    /\ cache' = [cache EXCEPT !.adeck[s] = IF adeck_result = "body" THEN tickIdx ELSE @]

NextCache ==
  \/ Publish
  \/ discover_and_ingest_cached
  \/ \E s \in Storms : forecast_begin_cached("w1", s)
  \/ forecast_delete("w1")
  \/ forecast_commit("w1")
  \/ forecast_return("w1")
  \/ forecast_fail("w1")

SpecCache == Init /\ [][NextCache]_vars

\* C38: when the processing of a 200 response fails after the fetch (the
\* ingest iteration of a storm, or the forecast update of a storm), the
\* validator kept for the URL is not the one of the current upstream version,
\* so that the next request is not answered 304: neither the one for the
\* storm's history file or A-Deck file nor, after a failed iteration, the one
\* for the index page.
C38_ValidatorNotAheadOfPersisted ==
  [][\A s \in Storms :
       /\ (/\ ev' # ev
           /\ ev'.op = "discover_and_ingest_storms"
           /\ ev'.storm = s
           /\ ev'.result = "raise")
            => (cache'.history[s] # tickIdx' /\ cache'.index # tickIdx')
       /\ (/\ ev' # ev
           /\ ev'.op = "update_storm_forecast_task"
           /\ ev'.storm = s
           /\ ev'.result = "error")
            => cache'.adeck[s] # tickIdx']_vars

(* ---------------------------------------------------------------------- *)
(* The zone task a forecast update enqueues                               *)
(* ---------------------------------------------------------------------- *)
\* forecast transactions followed per storm
MaxCommits == 2

\* tasks_forecast.py lines 56-58: the file holds no AP01..AP30 record and the
\* task returns no_ap_members
forecast_no_ap_members(w, s) ==
  /\ tx[w].pc = "idle"
  /\ status[s] # "absent"
  /\ Returned("update_storm_forecast_task", s, "no_ap_members")
  /\ UNCHANGED <<fpoints, zones, tx>>
  /\ UNCHANGED stormVars
  /\ UNCHANGED dataVars
  /\ UNCHANGED cache
  /\ UNCHANGED queue
  /\ UNCHANGED storm_rows

\* line 93, with the commit numbered
forecast_commit_counted(w) ==
  /\ tx[w].pc = "deleted"
  /\ queue.commits[tx[w].storm] < MaxCommits
  /\ forecast_committed(w)
  /\ queue' = [queue EXCEPT !.commits[tx[w].storm] = @ + 1,
                            !.own[w] = queue.commits[tx[w].storm] + 1]
  /\ UNCHANGED storm_rows

\* lines 97-109: regenerate_storm_zones_task.delay(storm_id) puts the message
\* on the queue, the notification is sent and the task returns success.
\* send_forecast_update_notification (lines 185-203) emits forecast_updated
\* when the socketio extension is there (sent = 1) and swallows whatever goes
\* wrong (sent = 0)
forecast_return_enqueue(w) ==
  /\ forecast_returned(w)
  /\ \E sent \in {0, 1} :
       queue' = [queue EXCEPT
                   !.pending = @ \cup {[storm |-> tx[w].storm,
                                        after |-> queue.own[w],
                                        points |-> NewPoints(w)]},
                   !.emitted = @ + sent]
  /\ UNCHANGED storm_rows

\* a worker takes the message and starts regenerate_storm_zones_task, which
\* reads the final forecast points of the storm (tasks_zones.py lines 26-36).
\* Zone tasks start from the queue only here, and with at most MaxCommits
\* messages no DELETE of one has to wait for another.
zone_dequeue(w, m) ==
  /\ m \in queue.pending
  /\ zone_read(w, m.storm)
  /\ queue' = [queue EXCEPT !.pending = @ \ {m}]
  /\ UNCHANGED storm_rows

NextEnqueue ==
  \/ \E w \in Workers : \E s \in Storms : forecast_begin(w, s)
  \/ \E w \in Workers : \E s \in Storms : forecast_no_ap_members(w, s)
  \/ \E w \in Workers : forecast_delete(w)
  \/ \E w \in Workers : forecast_delete_resume(w)
  \/ \E w \in Workers : forecast_commit_counted(w)
  \/ \E w \in Workers : forecast_return_enqueue(w)
  \/ \E w \in Workers : forecast_fail(w)
  \/ \E w \in Workers : \E m \in queue.pending : zone_dequeue(w, m)
  \/ \E w \in Workers : zone_delete(w)
  \/ \E w \in Workers : zone_commit(w)
  \/ \E w \in Workers : zone_fail(w)

SpecEnqueue == InitForecast /\ [][NextEnqueue]_vars

\* the messages a step puts on the queue and those it takes off
Sent == queue'.pending \ queue.pending
Taken == queue.pending \ queue'.pending

\* the commit a message came from is in the table, or a later one is
Current(m) ==
  \/ m.points \subseteq PointsOf(m.storm)
  \/ queue.commits[m.storm] > m.after

\* C39: update_storm_forecast_task enqueues the zone regeneration and emits
\* forecast_updated only in the step in which it returns success, which it
\* takes after its own forecast points are committed; a run that returns
\* no_data, no_ap_members or error enqueues and emits nothing.  When a worker
\* takes the message, the forecast points it reads are there, and they are
\* those of the commit of the run that sent the message unless a later
\* forecast transaction of the storm has committed since.
C39_ZonesEnqueuedAfterCommit ==
  [][/\ \A m \in Sent :
          /\ m.after >= 1
          /\ Current(m)
          /\ \E w \in Workers :
               /\ tx[w].pc = "committed" /\ tx'[w].pc = "idle"
               /\ m.storm = tx[w].storm
               /\ m.after = queue.own[w]
               /\ m.points = NewPoints(w)
               /\ ev'.result = "success"
     /\ queue'.emitted # queue.emitted =>
          /\ ev'.op = "update_storm_forecast_task" /\ ev'.result = "success"
          /\ \E w \in Workers : tx[w].pc = "committed" /\ tx'[w].pc = "idle"
     /\ ( /\ ev'.op = "update_storm_forecast_task"
          /\ ev'.result \in {"no_data", "no_ap_members", "error"}
          /\ \/ ev' # ev
             \/ \E w \in Workers : tx[w].pc # "idle" /\ tx'[w].pc = "idle" )
        => (Sent = {} /\ queue'.emitted = queue.emitted)
     /\ \A m \in Taken :
          /\ PointsOf(m.storm) # {}
          /\ Current(m)
          /\ \E w \in Workers : tx[w].pc = "idle" /\ tx'[w].pc = "zread"
    ]_vars

\* a zone task taken from the queue has read the forecast, a notification
\* was emitted, and the last forecast update to return returned without one
C39_Witness ==
  \E w \in Workers :
    /\ tx[w].pc = "zread"
    /\ queue.emitted > 0
    /\ ev.op = "update_storm_forecast_task"
    /\ ev.result \in {"no_data", "no_ap_members", "error"}

(* ---------------------------------------------------------------------- *)
(* Creation of storms by concurrent discovery runs                        *)
(* ---------------------------------------------------------------------- *)
\* links to storm pages on the index page
MaxLinks == 3

\* cimss_discovery.py lines 66-93: the links are gone through in page order,
\* a storm id seen before is skipped, and a storm is listed when its detail
\* page could be fetched (details)
RECURSIVE parse_links(_, _, _)
parse_links(links, seen_storm_ids, details) ==
  IF links = <<>> THEN <<>>
  ELSE LET storm_id == Head(links)
       IN  IF storm_id \in seen_storm_ids
           THEN parse_links(Tail(links), seen_storm_ids, details)
           ELSE (IF storm_id \in details THEN <<storm_id>> ELSE <<>>)
                \o parse_links(Tail(links), seen_storm_ids \cup {storm_id}, details)

parse_all_storms(links, details) == parse_links(links, {}, details)

\* the rows of the storms table with a storm code
StormRows(s) == {i \in 1..Len(storm_rows.table) : storm_rows.table[i] = s}

\* the frame of the steps of a discovery run
RunFrame ==
  /\ UNCHANGED <<now, tickIdx, advisories, last_seen, last_status_change_at>>
  /\ UNCHANGED <<ev, fpoints, zones, tx>>
  /\ UNCHANGED dataVars
  /\ UNCHANGED cache
  /\ UNCHANGED queue

\* tasks_ingest.py lines 26-34: discover_storms returns the storms of the
\* index page and the loop over them starts.  links are the storm links of
\* the page in page order; a storm can be linked more than once
discover_begin(w) ==
  /\ storm_rows.run[w].pc = "idle"
  /\ \E links \in SeqsUpTo(Storms, MaxLinks) :
       \E details \in SUBSET Storms :
         LET discovered_storms == parse_all_storms(links, details)
         IN  storm_rows' = [storm_rows EXCEPT
               !.run[w] = IF discovered_storms = <<>> THEN IdleRun
                          ELSE [pc |-> "loop", todo |-> discovered_storms]]
  /\ UNCHANGED status
  /\ RunFrame

\* line 39: Storm.query.filter_by(storm_id=storm_id).first() sees the
\* committed rows
storm_lookup(w) ==
  /\ storm_rows.run[w].pc = "loop"
  /\ storm_rows' = [storm_rows EXCEPT
       !.run[w].pc = IF StormRows(Head(storm_rows.run[w].todo)) = {}
                     THEN "create" ELSE "update"]
  /\ UNCHANGED status
  /\ RunFrame

\* the run goes on with the next storm of its list, or ends
NextStorm(w) ==
  LET rest == Tail(storm_rows.run[w].todo)
  IN  IF rest = <<>> THEN IdleRun ELSE [pc |-> "loop", todo |-> rest]

\* what lines 43-52 would do on a table without the unique index on storm_id
storm_create_unconstrained(w) ==
  /\ storm_rows.run[w].pc = "create"
  /\ LET storm_id == Head(storm_rows.run[w].todo)
     IN  /\ storm_rows' = [storm_rows EXCEPT
                             !.table = Append(@, storm_id),
                             !.run[w].pc = "update"]
         /\ status' = [status EXCEPT ![storm_id] = "active"]
  /\ RunFrame

\* lines 43-52: the Storm row is added and committed.  storm_id is unique
\* (models/storm.py line 21): when another run has committed a row with the
\* code since the lookup, the INSERT fails, the except branch (lines 96-98)
\* rolls back and the loop goes on with the next storm
storm_create(w) ==
  /\ storm_rows.run[w].pc = "create"
  /\ LET storm_id == Head(storm_rows.run[w].todo)
     IN  IF StormRows(storm_id) = {}
         THEN /\ storm_rows' = [storm_rows EXCEPT
                                  !.table = Append(@, storm_id),
                                  !.run[w].pc = "update"]
              /\ status' = [status EXCEPT ![storm_id] = "active"]
         ELSE /\ storm_rows' = [storm_rows EXCEPT !.run[w] = NextStorm(w)]
              /\ UNCHANGED status
  /\ RunFrame

\* lines 55-98: the storm is set active and its history file is ingested and
\* committed (the ingest itself is followed in Spec); when nothing is
\* committed or the iteration fails the status stays as it is
storm_update(w) ==
  /\ storm_rows.run[w].pc = "update"
  /\ LET storm_id == Head(storm_rows.run[w].todo)
     IN  \E committed \in BOOLEAN :
           status' = IF committed THEN [status EXCEPT ![storm_id] = "active"]
                     ELSE status
  /\ storm_rows' = [storm_rows EXCEPT !.run[w] = NextStorm(w)]
  /\ RunFrame

\* tasks_archival.py line 43 and line 140: check_dormant_storms and
\* archive_storm assign the status of the row; the thresholds that select
\* the storm are followed in Spec
storm_status_change(s) ==
  /\ \/ status[s] = "active" /\ status' = [status EXCEPT ![s] = "dormant"]
     \/ status[s] = "dormant" /\ status' = [status EXCEPT ![s] = "archived"]
  /\ UNCHANGED storm_rows
  /\ RunFrame

InitCreate ==
  /\ now = Instants[1]
  /\ tickIdx = 1
  /\ status = [s \in Storms |-> "absent"]
  /\ advisories = [s \in Storms |-> {}]
  /\ last_seen = [s \in Storms |-> NULL]
  /\ last_status_change_at = [s \in Storms |-> NULL]
  /\ ev = NoEvent
  /\ fpoints = {}
  /\ zones = {}
  /\ tx = [w \in Workers |-> IdleTx]
  /\ given = NoInput
  /\ made = NotMade
  /\ cache = NoValidators
  /\ queue = NoQueue
  /\ storm_rows = NoRows

NextCreate ==
  \/ \E w \in Workers : discover_begin(w)
  \/ \E w \in Workers : storm_lookup(w)
  \/ \E w \in Workers : storm_create(w)
  \/ \E w \in Workers : storm_update(w)
  \/ \E s \in Storms : storm_status_change(s)

SpecCreate == InitCreate /\ [][NextCreate]_vars

\* C31: whatever discovery runs do, also two of them at once and on index
\* pages that link a storm several times, the storms table never holds two
\* rows with one storm code, and no step of discovery or of the lifecycle
\* takes a row out of the table: every row stays where it is, and a storm
\* that has a row keeps a status.
C31_OneRowPerStormNeverDeleted ==
  [][/\ \A s \in Storms : Cardinality({i \in 1..Len(storm_rows'.table) :
                                         storm_rows'.table[i] = s}) <= 1
     /\ Len(storm_rows'.table) >= Len(storm_rows.table)
     /\ \A i \in 1..Len(storm_rows.table) :
          storm_rows'.table[i] = storm_rows.table[i]
     /\ \A s \in Storms : status[s] # "absent" => status'[s] # "absent"
    ]_vars

\* every storm has its row, a run that looked a storm up when it had no row
\* is about to insert it after another run has, and a storm has gone through
\* the lifecycle to archived
C31_Witness ==
  /\ Len(storm_rows.table) = Cardinality(Storms)
  /\ \E w \in Workers :
       /\ storm_rows.run[w].pc = "create"
       /\ StormRows(Head(storm_rows.run[w].todo)) # {}
  /\ \E s \in Storms : status[s] = "archived"

====
